---- MODULE Spec2Model ----
(***************************************************************************)
(* Quota check before credential issuance.                                 *)
(*                                                                         *)
(* The decision path is the Lambda handler of                              *)
(*   deployment/infrastructure/lambda-functions/quota_check/index.py       *)
(* which reads three kinds of DynamoDB items: quota policies               *)
(* (policies_table), the monthly usage record and the unblock override of  *)
(* a user (both in quota_table).                                           *)
(*                                                                         *)
(* Conventions.                                                            *)
(*  - A Python value that may be None is a sequence of length 0 or 1:      *)
(*    None is << >> and a present value v is << v >>.                      *)
(*  - A DynamoDB table is a function from the keys of its items to the     *)
(*    items; get_item of a key outside the DOMAIN returns no Item.         *)
(*  - Token counts and limits are naturals.  Costs are counted in the      *)
(*    smallest currency unit, so float(cost_limit) and round(cost, 2) are  *)
(*    exact on them; float() and int() are exact on every integer below    *)
(*    2^53, which covers every number of this model.                       *)
(*  - Instants are naturals; DayOf and MonthOf give the UTC date and the   *)
(*    calendar month that strftime("%Y-%m-%d") and strftime("%Y-%m") give. *)
(***************************************************************************)
EXTENDS Integers, Sequences, FiniteSets, TLC

VARIABLES
    policies_table,   \* POLICY#<type>#<identifier> / CURRENT  -> policy item
    usage_items,      \* quota_table: USER#<email> / MONTH#<yyyy-mm> -> usage item
    unblock_items,    \* quota_table: USER#<email> / UNBLOCK#CURRENT -> override item
    now,              \* datetime.now(timezone.utc)
    event,            \* the API Gateway event of the invocation
    fail,             \* the get_item calls that raise during the invocation
    pc,               \* "idle": event received, "done": response returned
    call,             \* the invocation's locals at its return, and its response
    previous,         \* the response the caller got from the invocation before
    invocations,      \* concurrent invocations: the locals of each between its reads
    admin_calls,      \* QuotaPolicyManager calls in progress, one per administrator
    table_before      \* policies_table as it was before the administrators' calls

vars == << policies_table, usage_items, unblock_items, now, event, fail, pc, call,
           previous, invocations, admin_calls, table_before >>

----------------------------------------------------------------------------
(* Bounds of the model *)

MaxTokens == 2        \* token counts, costs and monthly limits range over 0..MaxTokens
MaxGroups == 2        \* entries of the comma-separated groups parameter
MaxTime == 2          \* instants range over 0..MaxTime
TicksPerDay == 1      \* instants per UTC day
DaysPerMonth == 2     \* days per calendar month
NumCalls == 2         \* concurrent invocations of the handler
NumAdmins == 2        \* administrators calling QuotaPolicyManager at once
MaxCalls == 2         \* calls an administrator makes one after the other

None == << >>
Some(v) == << v >>

Emails == {"u1"}
NoEmail == ""
GroupNames == {"g1", "g2"}
Blank == " "

Times == 0 .. MaxTime
DayOf(t) == t \div TicksPerDay
MonthOf(t) == DayOf(t) \div DaysPerMonth
Days == {DayOf(t) : t \in Times}

----------------------------------------------------------------------------
(* Keys and reads *)

\* pk = f"POLICY#{policy_type}#{identifier}", sk = "CURRENT"
PolicyKey(policy_type, identifier) == << policy_type, identifier >>

UserKeys == {PolicyKey("user", e) : e \in Emails}
GroupKeys == {PolicyKey("group", g) : g \in GroupNames}
DefaultKey == PolicyKey("default", "default")
PolicyKeys == UserKeys \cup GroupKeys \cup {DefaultKey}

\* pk = f"USER#{email}", sk = f"MONTH#{month_prefix}"
UsageKey(email, month) == << email, month >>

\* The get_item calls of one invocation: a policy read is named by its key,
\* the override read and the usage read by the sort key they ask for.
UnblockRead == << "quota", "UNBLOCK#CURRENT" >>
UsageRead == << "quota", "MONTH" >>
PolicyReads == PolicyKeys
QuotaReads == {UnblockRead, UsageRead}
Reads == PolicyReads \cup QuotaReads

----------------------------------------------------------------------------
(* dict.get(key, default) on an attribute that may be missing *)
Get(opt, default) == IF opt = None THEN default ELSE opt[1]

\* Truthiness of an optional number: None and 0 are falsy.
Truthy(opt) == opt # None /\ opt[1] # 0

\* round(n / d * 100, 1) in tenths of a percent: the quotient 1000 n / d rounded
\* to the nearest integer, a tie going to the even one.
RoundPercent(n, d) ==
    LET q == (1000 * n) \div d
        r == (1000 * n) % d
    IN  IF 2 * r < d THEN q
        ELSE IF 2 * r > d THEN q + 1
        ELSE IF q % 2 = 0 THEN q ELSE q + 1

----------------------------------------------------------------------------
(* get_policy: one get_item on policies_table.  An exception of the read is
   caught inside the function, which then returns None. *)
get_policy(policy_type, identifier) ==
    LET pk == PolicyKey(policy_type, identifier)
    IN  IF pk \in fail THEN None
        ELSE IF pk \notin DOMAIN policies_table THEN None
        ELSE LET item == policies_table[pk]
             IN  Some([ policy_type |-> item.policy_type,
                        identifier |-> item.identifier,
                        monthly_token_limit |-> Get(item.monthly_token_limit, 0),
                        daily_token_limit |->
                            IF Truthy(item.daily_token_limit)
                            THEN item.daily_token_limit ELSE None,
                        monthly_cost_limit |->
                            IF Truthy(item.monthly_cost_limit)
                            THEN item.monthly_cost_limit ELSE None,
                        warning_threshold_80 |-> Get(item.warning_threshold_80, 0),
                        warning_threshold_90 |-> Get(item.warning_threshold_90, 0),
                        enforcement_mode |-> Get(item.enforcement_mode, "alert"),
                        enabled |-> Get(item.enabled, TRUE) ])

\* IsEnabled without the test of the enabled flag.
IsEnabled_IgnoreFlag(p) == p # None

\* "policy and policy.get('enabled', True)"
IsEnabled(p) == p # None /\ p[1].enabled

\* MinByMonthlyLimit with a limit of 0, which means unlimited, counted as
\* greater than every positive limit.
MinByMonthlyLimit_ZeroUnlimited(ps) ==
    LET above(p, q) == IF p.monthly_token_limit = 0 THEN q.monthly_token_limit # 0
                       ELSE q.monthly_token_limit # 0
                            /\ p.monthly_token_limit > q.monthly_token_limit
    IN  ps[CHOOSE i \in 1 .. Len(ps) :
              /\ \A j \in 1 .. Len(ps) : ~above(ps[i], ps[j])
              /\ \A j \in 1 .. (i - 1) : above(ps[j], ps[i])]

\* MinByMonthlyLimit with a tie going to the last element.
MinByMonthlyLimit_Last(ps) ==
    ps[CHOOSE i \in 1 .. Len(ps) :
          /\ \A j \in 1 .. Len(ps) :
                ps[i].monthly_token_limit <= ps[j].monthly_token_limit
          /\ \A j \in (i + 1) .. Len(ps) :
                ps[j].monthly_token_limit > ps[i].monthly_token_limit]

\* min(ps, key = monthly_token_limit): the first element with the least key.
MinByMonthlyLimit(ps) ==
    ps[CHOOSE i \in 1 .. Len(ps) :
          /\ \A j \in 1 .. Len(ps) :
                ps[i].monthly_token_limit <= ps[j].monthly_token_limit
          /\ \A j \in 1 .. (i - 1) :
                ps[j].monthly_token_limit > ps[i].monthly_token_limit]

\* The enabled group policies, in the order of the groups list.
RECURSIVE GroupPolicies(_)
GroupPolicies(groups) ==
    IF groups = << >> THEN << >>
    ELSE LET p == get_policy("group", Head(groups))
         IN  (IF IsEnabled(p) THEN << p[1] >> ELSE << >>)
                \o GroupPolicies(Tail(groups))

\* resolve_quota_for_user with the group policies tried before the user policy.
resolve_quota_for_user_GroupFirst(email, groups) ==
    LET user_policy == get_policy("user", email)
        group_policies == GroupPolicies(groups)
        default_policy == get_policy("default", "default")
    IN  IF groups # << >> /\ group_policies # << >>
        THEN Some(MinByMonthlyLimit(group_policies))
        ELSE IF IsEnabled(user_policy) THEN user_policy
        ELSE IF IsEnabled(default_policy) THEN default_policy
        ELSE None

\* resolve_quota_for_user falling back to the default policy whether or not
\* it is enabled.
resolve_quota_for_user_AnyDefault(email, groups) ==
    LET user_policy == get_policy("user", email)
        group_policies == GroupPolicies(groups)
        default_policy == get_policy("default", "default")
    IN  IF IsEnabled(user_policy) THEN user_policy
        ELSE IF groups # << >> /\ group_policies # << >>
             THEN Some(MinByMonthlyLimit(group_policies))
        ELSE default_policy

\* resolve_quota_for_user: user-specific > group (most restrictive) > default.
resolve_quota_for_user(email, groups) ==
    LET user_policy == get_policy("user", email)
        group_policies == GroupPolicies(groups)
        default_policy == get_policy("default", "default")
    IN  IF IsEnabled(user_policy) THEN user_policy
        ELSE IF groups # << >> /\ group_policies # << >>
             THEN Some(MinByMonthlyLimit(group_policies))
        ELSE IF IsEnabled(default_policy) THEN default_policy
        ELSE None

\* The policy keys resolve_quota_for_user asks policies_table for.
ResolveReads(email, groups) ==
    {PolicyKey("user", email)}
      \cup (IF IsEnabled(get_policy("user", email)) THEN {}
            ELSE {PolicyKey("group", groups[i]) : i \in 1 .. Len(groups)}
                   \cup (IF groups # << >> /\ GroupPolicies(groups) # << >>
                         THEN {} ELSE {DefaultKey}))

----------------------------------------------------------------------------
(* get_unblock_status: one get_item on quota_table.  The keys "expired" and
   "error" of the returned dict are flags here: TRUE when the key is set. *)
NotUnblocked ==
    [ is_unblocked |-> FALSE, expired |-> FALSE, error |-> FALSE,
      expires_at |-> None, unblocked_by |-> None ]

\* get_unblock_status with the override already expired at the instant
\* expires_at.
get_unblock_status_ExpiredAtInstant(email) ==
    IF UnblockRead \in fail THEN [NotUnblocked EXCEPT !.error = TRUE]
    ELSE IF email \notin DOMAIN unblock_items THEN NotUnblocked
    ELSE LET item == unblock_items[email]
             expires_at == item.expires_at
         IN  IF expires_at # None /\ now >= expires_at[1]
             THEN [NotUnblocked EXCEPT !.expired = TRUE]
             ELSE [ is_unblocked |-> TRUE, expired |-> FALSE, error |-> FALSE,
                    expires_at |-> expires_at,
                    unblocked_by |-> item.unblocked_by ]

\* get_unblock_status without the expiry check: a stored override is active.
get_unblock_status_NeverExpires(email) ==
    IF UnblockRead \in fail THEN [NotUnblocked EXCEPT !.error = TRUE]
    ELSE IF email \notin DOMAIN unblock_items THEN NotUnblocked
    ELSE LET item == unblock_items[email]
         IN  [ is_unblocked |-> TRUE, expired |-> FALSE, error |-> FALSE,
               expires_at |-> item.expires_at,
               unblocked_by |-> item.unblocked_by ]

\* get_unblock_status counting an override item without expires_at as
\* expired.
get_unblock_status_RequiresExpiry(email) ==
    IF UnblockRead \in fail THEN [NotUnblocked EXCEPT !.error = TRUE]
    ELSE IF email \notin DOMAIN unblock_items THEN NotUnblocked
    ELSE LET item == unblock_items[email]
             expires_at == item.expires_at
         IN  IF expires_at = None \/ now > expires_at[1]
             THEN [NotUnblocked EXCEPT !.expired = TRUE]
             ELSE [ is_unblocked |-> TRUE, expired |-> FALSE, error |-> FALSE,
                    expires_at |-> expires_at,
                    unblocked_by |-> item.unblocked_by ]

get_unblock_status(email) ==
    IF UnblockRead \in fail THEN [NotUnblocked EXCEPT !.error = TRUE]
    ELSE IF email \notin DOMAIN unblock_items THEN NotUnblocked
    ELSE LET item == unblock_items[email]
             expires_at == item.expires_at
         IN  IF expires_at # None /\ now > expires_at[1]
             THEN [NotUnblocked EXCEPT !.expired = TRUE]
             ELSE [ is_unblocked |-> TRUE, expired |-> FALSE, error |-> FALSE,
                    expires_at |-> expires_at,
                    unblocked_by |-> item.unblocked_by ]

----------------------------------------------------------------------------
(* get_user_usage: one get_item on quota_table for the current month. *)
ZeroUsage ==
    [ total_tokens |-> 0, daily_tokens |-> 0, daily_date |-> Some(DayOf(now)),
      estimated_cost |-> 0 ]

\* get_user_usage without the reset of the daily count on a new day.
get_user_usage_NoRollover(email) ==
    LET sk == UsageKey(email, MonthOf(now))
    IN  IF UsageRead \in fail THEN ZeroUsage
        ELSE IF sk \notin DOMAIN usage_items THEN ZeroUsage
        ELSE LET item == usage_items[sk]
             IN  [ total_tokens |-> Get(item.total_tokens, 0),
                   daily_tokens |-> Get(item.daily_tokens, 0),
                   daily_date |-> item.daily_date,
                   estimated_cost |-> Get(item.estimated_cost, 0) ]

\* get_user_usage reading the user's latest stored month up to the current
\* one, instead of the current month only.
get_user_usage_LatestMonth(email) ==
    LET current_date == DayOf(now)
        stored == { m \in 0 .. MonthOf(now) : UsageKey(email, m) \in DOMAIN usage_items }
    IN  IF UsageRead \in fail THEN ZeroUsage
        ELSE IF stored = {} THEN ZeroUsage
        ELSE LET sk == UsageKey(email, CHOOSE m \in stored : \A o \in stored : o <= m)
                 item == usage_items[sk]
             IN  [ total_tokens |-> Get(item.total_tokens, 0),
                   daily_tokens |->
                       IF item.daily_date # Some(current_date) THEN 0
                       ELSE Get(item.daily_tokens, 0),
                   daily_date |-> item.daily_date,
                   estimated_cost |-> Get(item.estimated_cost, 0) ]

get_user_usage(email) ==
    LET current_date == DayOf(now)
        sk == UsageKey(email, MonthOf(now))
    IN  IF UsageRead \in fail THEN ZeroUsage
        ELSE IF sk \notin DOMAIN usage_items THEN ZeroUsage
        ELSE LET item == usage_items[sk]
             IN  [ total_tokens |-> Get(item.total_tokens, 0),
                   daily_tokens |->
                       IF item.daily_date # Some(current_date) THEN 0
                       ELSE Get(item.daily_tokens, 0),
                   daily_date |-> item.daily_date,
                   estimated_cost |-> Get(item.estimated_cost, 0) ]

build_usage_summary(usage, policy) ==
    LET monthly_limit == policy.monthly_token_limit
        daily_limit == policy.daily_token_limit
        cost_limit == policy.monthly_cost_limit
    IN  [ monthly_tokens |-> usage.total_tokens,
          monthly_limit |-> monthly_limit,
          monthly_percent |->
              IF monthly_limit > 0
              THEN RoundPercent(usage.total_tokens, monthly_limit) ELSE 0,
          daily_tokens |-> usage.daily_tokens,
          estimated_cost |-> usage.estimated_cost,
          daily_limit |-> daily_limit,
          daily_percent |->
              IF daily_limit = None THEN None
              ELSE IF daily_limit[1] > 0
                   THEN Some(RoundPercent(usage.daily_tokens, daily_limit[1]))
                   ELSE Some(0),
          cost_limit |-> cost_limit,
          cost_percent |->
              IF cost_limit = None THEN None
              ELSE IF cost_limit[1] > 0
                   THEN Some(RoundPercent(usage.estimated_cost, cost_limit[1]))
                   ELSE Some(0) ]

get_user_usage_summary(email, policy) ==
    build_usage_summary(get_user_usage(email), policy)

----------------------------------------------------------------------------
(* lambda_handler *)

\* g.strip(): a piece of whitespace only becomes the empty string.
Strip(g) == IF g = Blank THEN "" ELSE g

\* [g.strip() for g in groups_param.split(",") if g.strip()], on the pieces
\* that split(",") returns.
RECURSIVE ParseGroups(_)
ParseGroups(pieces) ==
    IF pieces = << >> THEN << >>
    ELSE (IF Strip(Head(pieces)) # "" THEN << Strip(Head(pieces)) >> ELSE << >>)
            \o ParseGroups(Tail(pieces))

PolicyRef(policy) == [ type |-> policy.policy_type, identifier |-> policy.identifier ]

Body(allowed, reason, mode, usage, policy, unblock_status) ==
    [ allowed |-> allowed, reason |-> reason, enforcement_mode |-> mode,
      usage |-> usage, policy |-> policy, unblock_status |-> unblock_status ]

\* build_response: the status code and the JSON body.
build_response(status_code, body) == [ statusCode |-> status_code, body |-> body ]

\* CheckLimits without the test that the monthly limit is positive.
CheckLimits_NoZeroGuard(usage, policy) ==
    IF usage.total_tokens >= policy.monthly_token_limit THEN "monthly_exceeded"
    ELSE IF Truthy(policy.daily_token_limit) /\ policy.daily_token_limit[1] > 0
              /\ usage.daily_tokens >= policy.daily_token_limit[1]
    THEN "daily_exceeded"
    ELSE IF Truthy(policy.monthly_cost_limit) /\ policy.monthly_cost_limit[1] > 0
              /\ usage.estimated_cost >= policy.monthly_cost_limit[1]
    THEN "cost_exceeded"
    ELSE "within_quota"

\* CheckLimits with strict comparisons.
CheckLimits_Strict(usage, policy) ==
    IF policy.monthly_token_limit > 0
          /\ usage.total_tokens > policy.monthly_token_limit
    THEN "monthly_exceeded"
    ELSE IF Truthy(policy.daily_token_limit) /\ policy.daily_token_limit[1] > 0
              /\ usage.daily_tokens > policy.daily_token_limit[1]
    THEN "daily_exceeded"
    ELSE IF Truthy(policy.monthly_cost_limit) /\ policy.monthly_cost_limit[1] > 0
              /\ usage.estimated_cost > policy.monthly_cost_limit[1]
    THEN "cost_exceeded"
    ELSE "within_quota"

\* CheckLimits with the cost limit checked first.
CheckLimits_CostFirst(usage, policy) ==
    IF Truthy(policy.monthly_cost_limit) /\ policy.monthly_cost_limit[1] > 0
          /\ usage.estimated_cost >= policy.monthly_cost_limit[1]
    THEN "cost_exceeded"
    ELSE IF policy.monthly_token_limit > 0
              /\ usage.total_tokens >= policy.monthly_token_limit
    THEN "monthly_exceeded"
    ELSE IF Truthy(policy.daily_token_limit) /\ policy.daily_token_limit[1] > 0
              /\ usage.daily_tokens >= policy.daily_token_limit[1]
    THEN "daily_exceeded"
    ELSE "within_quota"

\* Step 5 of the handler: the first limit reached, in the order monthly tokens,
\* daily tokens, monthly cost; "within_quota" when none is.
CheckLimits(usage, policy) ==
    LET monthly_tokens == usage.total_tokens
        daily_tokens == usage.daily_tokens
        estimated_cost == usage.estimated_cost
        monthly_limit == policy.monthly_token_limit
        daily_limit == policy.daily_token_limit
        cost_limit == policy.monthly_cost_limit
    IN  IF monthly_limit > 0 /\ monthly_tokens >= monthly_limit
        THEN "monthly_exceeded"
        ELSE IF Truthy(daily_limit) /\ daily_limit[1] > 0
                  /\ daily_tokens >= daily_limit[1]
        THEN "daily_exceeded"
        ELSE IF Truthy(cost_limit) /\ cost_limit[1] > 0
                  /\ estimated_cost >= cost_limit[1]
        THEN "cost_exceeded"
        ELSE "within_quota"

\* Enforce with the override looked at only after the limits: a reached limit
\* blocks in block mode whether or not the user is unblocked.
Enforce_OverrideLast(email, policy) ==
    LET unblock_status == get_unblock_status(email)
        usage == get_user_usage(email)
        reason == CheckLimits(usage, policy)
        locals == [ policy |-> Some(policy), unblock_status |-> Some(unblock_status),
                    usage |-> Some(usage) ]
    IN  IF policy.enforcement_mode = "block" /\ reason # "within_quota"
        THEN [ locals |-> locals,
               response |-> build_response(200,
                   Body(FALSE, reason, Some(policy.enforcement_mode),
                        Some(build_usage_summary(usage, policy)),
                        Some(PolicyRef(policy)), Some(NotUnblocked))) ]
        ELSE [ locals |-> locals,
               response |-> build_response(200,
                   Body(TRUE, IF unblock_status.is_unblocked THEN "unblocked"
                              ELSE "within_quota",
                        Some(policy.enforcement_mode),
                        Some(build_usage_summary(usage, policy)),
                        Some(PolicyRef(policy)), Some(unblock_status))) ]

\* Enforce without the alert-only return: the limits decide in every mode.
Enforce_IgnoreMode(email, policy) ==
    LET unblock_status == get_unblock_status(email)
        usage == get_user_usage(email)
        reason == CheckLimits(usage, policy)
        locals == [ policy |-> Some(policy), unblock_status |-> Some(unblock_status),
                    usage |-> Some(usage) ]
    IN  IF unblock_status.is_unblocked
        THEN [ locals |-> locals,
               response |-> build_response(200,
                   Body(TRUE, "unblocked", Some(policy.enforcement_mode),
                        Some(get_user_usage_summary(email, policy)),
                        Some(PolicyRef(policy)), Some(unblock_status))) ]
        ELSE [ locals |-> locals,
               response |-> build_response(200,
                   Body(reason = "within_quota", reason, Some(policy.enforcement_mode),
                        Some(build_usage_summary(usage, policy)),
                        Some(PolicyRef(policy)), Some(NotUnblocked))) ]

\* Steps 2 to 5, for a resolved policy: the locals and the response.
\* Steps 2 to 4 of lambda_handler on the values its reads returned: the
\* override, the enforcement mode, the limits.
Decision(policy, unblock_status, usage) ==
    LET usage_summary == build_usage_summary(usage, policy)
        enforcement_mode == policy.enforcement_mode
        reason == CheckLimits(usage, policy)
    IN  IF unblock_status.is_unblocked
        THEN build_response(200,
                 Body(TRUE, "unblocked", Some(enforcement_mode),
                      Some(usage_summary), Some(PolicyRef(policy)),
                      Some(unblock_status)))
        ELSE IF enforcement_mode # "block"
        THEN build_response(200,
                 Body(TRUE, "within_quota", Some(enforcement_mode),
                      Some(usage_summary), Some(PolicyRef(policy)),
                      Some(NotUnblocked)))
        ELSE build_response(200,
                 Body(reason = "within_quota", reason, Some(enforcement_mode),
                      Some(usage_summary), Some(PolicyRef(policy)),
                      Some(NotUnblocked)))

Enforce(email, policy) ==
    LET unblock_status == get_unblock_status(email)
        usage == get_user_usage(email)
    IN  [ locals |-> [ policy |-> Some(policy),
                       unblock_status |-> Some(unblock_status),
                       usage |-> Some(usage) ],
          response |-> Decision(policy, unblock_status, usage) ]

NoLocals == [ policy |-> None, unblock_status |-> None, usage |-> None ]

\* The whole handler on one event: the get_item calls it makes, its locals at
\* the return, and the response.
Handle(ev) ==
    LET email == ev.email
        groups == ParseGroups(ev.groups_param)
        policy == resolve_quota_for_user(email, groups)
    IN  IF email = NoEmail
        THEN [ reads |-> {}, locals |-> NoLocals,
               response |-> build_response(400,
                   Body(TRUE, "invalid_request", None, None, None, None)) ]
        ELSE IF policy = None
        THEN [ reads |-> ResolveReads(email, groups), locals |-> NoLocals,
               response |-> build_response(200,
                   Body(TRUE, "no_policy", None, None, None, None)) ]
        ELSE [ reads |-> ResolveReads(email, groups) \cup QuotaReads,
               locals |-> Enforce(email, policy[1]).locals,
               response |-> Enforce(email, policy[1]).response ]

NoCall == [ reads |-> {}, locals |-> NoLocals, response |-> None ]

\* No earlier response, no concurrent invocation and no administrator.
OneCallerOnly ==
    /\ previous = None
    /\ invocations = << >>
    /\ admin_calls = << >>
    /\ table_before = << >>

\* lambda_handler using the override up: the override item is deleted by the
\* invocation it unblocks.
lambda_handler_ConsumesOverride ==
    /\ pc = "idle"
    /\ pc' = "done"
    /\ call' = [ reads |-> Handle(event).reads,
                 locals |-> Handle(event).locals,
                 response |-> Some(Handle(event).response) ]
    /\ unblock_items' =
           IF Handle(event).response.body.reason = "unblocked"
           THEN [ k \in DOMAIN unblock_items \ {event.email} |-> unblock_items[k] ]
           ELSE unblock_items
    /\ UNCHANGED << policies_table, usage_items, now, event, fail >>
    /\ UNCHANGED << previous, invocations, admin_calls, table_before >>

lambda_handler ==
    /\ pc = "idle"
    /\ pc' = "done"
    /\ call' = [ reads |-> Handle(event).reads,
                 locals |-> Handle(event).locals,
                 response |-> Some(Handle(event).response) ]
    /\ UNCHANGED << policies_table, usage_items, unblock_items, now, event, fail >>
    /\ UNCHANGED << previous, invocations, admin_calls, table_before >>

\* The response has been returned to API Gateway; the next invocation starts.
Return ==
    /\ pc = "done"
    /\ pc' = "idle"
    /\ call' = NoCall
    /\ UNCHANGED << policies_table, usage_items, unblock_items, now, event, fail >>
    /\ UNCHANGED << previous, invocations, admin_calls, table_before >>

\* Time passes between two invocations.
Tick ==
    /\ pc = "idle"
    /\ now < MaxTime
    /\ now' = now + 1
    /\ UNCHANGED << policies_table, usage_items, unblock_items, event, fail, pc, call >>
    /\ UNCHANGED << previous, invocations, admin_calls, table_before >>

\* The response has been returned and the caller keeps it beside the instant
\* of the invocation; the next invocation of the same caller starts.
ReturnKept ==
    /\ pc = "done"
    /\ pc' = "idle"
    /\ previous' = Some([ at |-> now, response |-> call.response[1] ])
    /\ call' = NoCall
    /\ UNCHANGED << policies_table, usage_items, unblock_items, now, event, fail >>
    /\ UNCHANGED << invocations, admin_calls, table_before >>

----------------------------------------------------------------------------
(* Concurrent invocations: lambda_handler one get_item at a time. Each
   invocation keeps its locals between its reads; every read sees the tables
   as they are at its step. *)
NewInvocation ==
    [ pc |-> "start", group |-> 1, group_policies |-> << >>, policy |-> None,
      unblock_status |-> None, usage |-> None, response |-> None ]

\* Invocation c moves on with new locals; nothing else changes.
Proceed(c, locals) ==
    /\ invocations' = [invocations EXCEPT ![c] = locals]
    /\ UNCHANGED << policies_table, usage_items, unblock_items, now, event, fail >>
    /\ UNCHANGED << pc, call, previous, admin_calls, table_before >>

\* The query parameters are parsed; a request without email is answered.
ParseRequest(c) ==
    LET self == invocations[c]
    IN  /\ self.pc = "start"
        /\ IF event.email = NoEmail
           THEN Proceed(c, [self EXCEPT
                    !.pc = "done",
                    !.response = Some(build_response(400,
                        Body(TRUE, "invalid_request", None, None, None, None)))])
           ELSE Proceed(c, [self EXCEPT !.pc = "user"])

\* resolve_quota_for_user, step 1.
GetUserPolicy(c) ==
    LET self == invocations[c]
        user_policy == get_policy("user", event.email)
    IN  /\ self.pc = "user"
        /\ IF IsEnabled(user_policy)
           THEN Proceed(c, [self EXCEPT !.pc = "unblock", !.policy = user_policy])
           ELSE IF ParseGroups(event.groups_param) # << >>
           THEN Proceed(c, [self EXCEPT !.pc = "group"])
           ELSE Proceed(c, [self EXCEPT !.pc = "default"])

\* resolve_quota_for_user, step 2: one turn of the loop over the groups, and
\* the choice of the most restrictive policy after the last turn.
GetGroupPolicy(c) ==
    LET self == invocations[c]
        groups == ParseGroups(event.groups_param)
        group_policy == get_policy("group", groups[self.group])
        group_policies ==
            IF IsEnabled(group_policy)
            THEN Append(self.group_policies, group_policy[1])
            ELSE self.group_policies
    IN  /\ self.pc = "group"
        /\ IF self.group < Len(groups)
           THEN Proceed(c, [self EXCEPT !.group = self.group + 1,
                                        !.group_policies = group_policies])
           ELSE IF group_policies # << >>
           THEN Proceed(c, [self EXCEPT
                    !.pc = "unblock",
                    !.group_policies = group_policies,
                    !.policy = Some(MinByMonthlyLimit(group_policies))])
           ELSE Proceed(c, [self EXCEPT !.pc = "default"])

\* resolve_quota_for_user, steps 3 and 4, and the no_policy response.
GetDefaultPolicy(c) ==
    LET self == invocations[c]
        default_policy == get_policy("default", "default")
    IN  /\ self.pc = "default"
        /\ IF IsEnabled(default_policy)
           THEN Proceed(c, [self EXCEPT !.pc = "unblock", !.policy = default_policy])
           ELSE Proceed(c, [self EXCEPT
                    !.pc = "done",
                    !.response = Some(build_response(200,
                        Body(TRUE, "no_policy", None, None, None, None)))])

\* The override is checked.
GetUnblockStatus(c) ==
    LET self == invocations[c]
    IN  /\ self.pc = "unblock"
        /\ Proceed(c, [self EXCEPT
               !.pc = "usage",
               !.unblock_status = Some(get_unblock_status(event.email))])

\* GetUserUsage storing the daily count it reset: the usage item of a past
\* day is rewritten with daily_tokens 0 and today's date.
GetUserUsage_StoresRollover(c) ==
    LET self == invocations[c]
        usage == get_user_usage(event.email)
        sk == UsageKey(event.email, MonthOf(now))
    IN  /\ self.pc = "usage"
        /\ invocations' = [invocations EXCEPT ![c] = [self EXCEPT
               !.pc = "done",
               !.usage = Some(usage),
               !.response = Some(Decision(self.policy[1], self.unblock_status[1], usage))]]
        /\ usage_items' =
               IF sk \in DOMAIN usage_items /\ UsageRead \notin fail
                  /\ usage_items[sk].daily_date # Some(DayOf(now))
               THEN [usage_items EXCEPT ![sk].daily_tokens = Some(0),
                                        ![sk].daily_date = Some(DayOf(now))]
               ELSE usage_items
        /\ UNCHANGED << policies_table, unblock_items, now, event, fail >>
        /\ UNCHANGED << pc, call, previous, admin_calls, table_before >>

\* The usage is read and the response is built.
GetUserUsage(c) ==
    LET self == invocations[c]
        usage == get_user_usage(event.email)
    IN  /\ self.pc = "usage"
        /\ Proceed(c, [self EXCEPT
               !.pc = "done",
               !.usage = Some(usage),
               !.response = Some(Decision(self.policy[1], self.unblock_status[1], usage))])

----------------------------------------------------------------------------
(* The items of the tables *)

\* The item QuotaPolicyManager.create_policy puts for a policy: the warning
\* thresholds are 80% and 90% of the monthly limit, rounded down.
PolicyItem(key, monthly, daily, cost, mode, enabled) ==
    [ policy_type |-> key[1], identifier |-> key[2],
      monthly_token_limit |-> Some(monthly),
      daily_token_limit |-> daily,
      monthly_cost_limit |-> cost,
      warning_threshold_80 |-> Some((monthly * 8) \div 10),
      warning_threshold_90 |-> Some((monthly * 9) \div 10),
      enforcement_mode |-> Some(mode),
      enabled |-> Some(enabled) ]

Modes == {"alert", "block"}
Limits == 0 .. MaxTokens
DailyLimits == {None, Some(0), Some(1)}
CostLimits == {None, Some(1)}

\* Every policy item of a key.
PolicyItems(key) ==
    { PolicyItem(key, m, d, c, mode, en) :
        m \in Limits, d \in DailyLimits, c \in CostLimits,
        mode \in Modes, en \in BOOLEAN }

\* The usage item the metrics pipeline keeps for a user and a month: the daily
\* counter is part of the month's total.
UsageItem(total, daily, date, cost) ==
    [ total_tokens |-> Some(total), daily_tokens |-> Some(daily),
      daily_date |-> Some(date), estimated_cost |-> Some(cost) ]

UsageItems(dates) ==
    { UsageItem(t, d, date, c) :
        t \in 0 .. MaxTokens, d \in 0 .. MaxTokens, date \in dates, c \in 0 .. 1 }

\* The override item an administrator's unblock command writes.
UnblockItem(expires_at) == [ expires_at |-> expires_at, unblocked_by |-> Some("admin") ]

\* A table holding the given item, or no item, under one key.
OneItem(key, items) == { [k \in {} |-> 0] } \cup { [k \in {key} |-> i] : i \in items }

Event(email, pieces) == [ email |-> email, groups_param |-> pieces ]

\* One get_item fails, or a whole table is unreachable, or both tables are.
FaultSets(reads) ==
    {{}} \cup {{r} : r \in reads} \cup {PolicyReads, QuotaReads, Reads}

----------------------------------------------------------------------------
(* Specification of the decision: one user's policy, usage and override vary
   over every item, beside an organization-wide default policy; time starts
   at 0 and passes between invocations. *)
TableUnion(f, g) == [k \in DOMAIN f \cup DOMAIN g |-> IF k \in DOMAIN f THEN f[k] ELSE g[k]]

Init ==
    /\ \E e \in Emails :
         /\ \E up \in OneItem(PolicyKey("user", e), PolicyItems(PolicyKey("user", e))),
               dp \in OneItem(DefaultKey,
                              {PolicyItem(DefaultKey, 1, None, None, "block", TRUE)}) :
               policies_table = TableUnion(up, dp)
         /\ usage_items \in
               OneItem(UsageKey(e, 0),
                       {u \in UsageItems({0}) : u.daily_tokens[1] <= u.total_tokens[1]})
         /\ unblock_items \in OneItem(e, {UnblockItem(Some(0))})
         /\ event \in {Event(e, << Blank >>), Event(NoEmail, << Blank >>)}
         /\ fail \in FaultSets({PolicyKey("user", e), UnblockRead, UsageRead})
    /\ now = 0
    /\ pc = "idle"
    /\ call = NoCall
    /\ OneCallerOnly

(* Specification of the resolver: the policies of the user, of two groups and
   of the organization vary in presence, enabled flag and monthly limit, all
   in block mode, against no usage or a usage that reaches every positive
   limit, with or without an override; the groups parameter varies over every
   list of group names, and at most one policy read fails. *)
ResolverItems(key, limits) ==
    { PolicyItem(key, m, None, None, "block", en) : m \in limits, en \in BOOLEAN }

\* The lists of at most n group names.
RECURSIVE GroupLists(_)
GroupLists(n) ==
    IF n = 0 THEN {<< >>}
    ELSE GroupLists(n - 1)
           \cup { Append(s, g) : s \in {t \in GroupLists(n - 1) : Len(t) = n - 1},
                                 g \in GroupNames }

\* "".split(",") is [""]: an absent or empty groups parameter is one empty piece.
PiecesOf(groups) == IF groups = << >> THEN << Blank >> ELSE groups

InitResolve ==
    /\ \E e \in Emails :
         /\ \E up \in OneItem(PolicyKey("user", e), ResolverItems(PolicyKey("user", e), {1, MaxTokens})),
               g1 \in OneItem(PolicyKey("group", "g1"), ResolverItems(PolicyKey("group", "g1"), Limits)),
               g2 \in OneItem(PolicyKey("group", "g2"), ResolverItems(PolicyKey("group", "g2"), Limits)),
               dp \in OneItem(DefaultKey, ResolverItems(DefaultKey, {1})) :
               policies_table = TableUnion(TableUnion(up, g1), TableUnion(g2, dp))
         /\ usage_items \in OneItem(UsageKey(e, 0), {UsageItem(MaxTokens, 0, 0, 0)})
         /\ unblock_items \in OneItem(e, {UnblockItem(Some(0))})
         /\ event \in {Event(e, PiecesOf(g)) : g \in GroupLists(MaxGroups)}
    /\ fail \in {{}} \cup {{r} : r \in PolicyReads}
    /\ now = 0
    /\ pc = "idle"
    /\ call = NoCall
    /\ OneCallerOnly

Next == lambda_handler \/ Return \/ Tick

Spec == Init /\ [][Next]_vars

----------------------------------------------------------------------------
(* Specification of the calendar: one user's policy beside usage records of
   every month the clock reaches and an override expiring at any instant. *)
Months == { MonthOf(t) : t \in Times }
DaysIn(month) == { d \in Days : d \div DaysPerMonth = month }

\* A month's usage record: at most MaxTokens tokens, some of them on the
\* day of the last update.
MonthItems(month) ==
    { i \in { UsageItem(t, d, date, 0) : t \in 0 .. MaxTokens, d \in 0 .. MaxTokens,
                                         date \in DaysIn(month) } :
        i.daily_tokens[1] <= i.total_tokens[1] }

InitTime ==
    \E e \in Emails :
        /\ policies_table \in
               OneItem(PolicyKey("user", e),
                       { PolicyItem(PolicyKey("user", e), m, d, None, mode, TRUE) :
                           m \in {0, 1, MaxTokens}, d \in {None, Some(1)},
                           mode \in Modes })
        /\ \E first \in OneItem(UsageKey(e, 0), MonthItems(0)),
              later \in OneItem(UsageKey(e, 1),
                                { i \in MonthItems(1) : i.total_tokens = Some(MaxTokens)
                                                        /\ i.daily_tokens = Some(MaxTokens) }) :
               usage_items = TableUnion(first, later)
        /\ unblock_items \in
               OneItem(e, { UnblockItem(x) : x \in {None} \cup { Some(t) : t \in Times } })
        /\ event = Event(e, << Blank >>)
        /\ fail \in { {}, {UnblockRead}, {UsageRead} }
        /\ now = 0
        /\ pc = "idle"
        /\ call = NoCall
        /\ OneCallerOnly

SpecTime == InitTime /\ [][Next]_vars

\* The same caller invokes the handler again and again.
NextRepeat == lambda_handler \/ ReturnKept \/ Tick

SpecRepeat == InitTime /\ [][NextRepeat]_vars

----------------------------------------------------------------------------
(* Specification of concurrent invocations: NumCalls invocations of one
   request read the tables in any interleaving, at an instant of the first
   or of the second day. *)
InitConcurrent ==
    \E e \in Emails :
        /\ \E user \in OneItem(PolicyKey("user", e),
                               { PolicyItem(PolicyKey("user", e), 1, None, None, "block", TRUE),
                                 PolicyItem(PolicyKey("user", e), 1, Some(1), None, "alert", TRUE),
                                 PolicyItem(PolicyKey("user", e), 1, None, None, "block", FALSE) }),
              g1 \in OneItem(PolicyKey("group", "g1"),
                             { PolicyItem(PolicyKey("group", "g1"), MaxTokens, Some(1), None,
                                          "block", TRUE) }),
              g2 \in OneItem(PolicyKey("group", "g2"),
                             { PolicyItem(PolicyKey("group", "g2"), 1, None, None,
                                          "block", TRUE) }),
              default \in OneItem(DefaultKey,
                                  { PolicyItem(DefaultKey, 1, None, None, "block", TRUE) }) :
               policies_table = TableUnion(TableUnion(user, g1), TableUnion(g2, default))
        /\ usage_items \in OneItem(UsageKey(e, 0), { UsageItem(MaxTokens, MaxTokens, 0, 0) })
        /\ unblock_items \in OneItem(e, { UnblockItem(Some(0)) })
        /\ event \in { Event(e, << Blank >>), Event(e, << "g1", "g2" >>),
                       Event(NoEmail, << Blank >>) }
        /\ fail \in { {}, {PolicyKey("user", e)}, {UnblockRead}, {UsageRead} }
        /\ now \in {0, TicksPerDay}
        /\ pc = "idle"
        /\ call = NoCall
        /\ previous = None
        /\ invocations = [ c \in 1 .. NumCalls |-> NewInvocation ]
        /\ admin_calls = << >>
        /\ table_before = << >>

NextConcurrent ==
    \/ \E c \in DOMAIN invocations : ParseRequest(c)
    \/ \E c \in DOMAIN invocations : GetUserPolicy(c)
    \/ \E c \in DOMAIN invocations : GetGroupPolicy(c)
    \/ \E c \in DOMAIN invocations : GetDefaultPolicy(c)
    \/ \E c \in DOMAIN invocations : GetUnblockStatus(c)
    \/ \E c \in DOMAIN invocations : GetUserUsage(c)

SpecConcurrent == InitConcurrent /\ [][NextConcurrent]_vars

----------------------------------------------------------------------------
(* QuotaPolicyManager: create_policy, update_policy and delete_policy, each
   store call one atomic step on policies_table. *)
Admins == 1 .. NumAdmins

CreateArgs(policy_type, identifier, monthly_token_limit, created_by) ==
    [ policy_type |-> policy_type, identifier |-> identifier,
      monthly_token_limit |-> monthly_token_limit,
      daily_token_limit |-> None, monthly_cost_limit |-> None,
      warning_threshold_80 |-> None, warning_threshold_90 |-> None,
      enforcement_mode |-> "alert", enabled |-> TRUE,
      created_by |-> created_by ]

UpdateArgs(policy_type, identifier, monthly_token_limit, warning_threshold_80, enabled) ==
    [ policy_type |-> policy_type, identifier |-> identifier,
      monthly_token_limit |-> monthly_token_limit,
      daily_token_limit |-> None, monthly_cost_limit |-> None,
      warning_threshold_80 |-> warning_threshold_80, warning_threshold_90 |-> None,
      enforcement_mode |-> None, enabled |-> enabled ]

DeleteArgs(policy_type, identifier) ==
    [ policy_type |-> policy_type, identifier |-> identifier ]

\* The product rounded to the nearest integer instead.
IntOfTenths_Nearest(m, tenths) == (m * tenths + 5) \div 10

\* int(monthly_token_limit * 0.8), int(monthly_token_limit * 0.9): the
\* product truncated towards zero.
IntOfTenths(m, tenths) ==
    IF m >= 0 THEN (m * tenths) \div 10 ELSE 0 - (((0 - m) * tenths) \div 10)

\* The item create_policy puts: the Default identifier normalised, the
\* thresholds derived when not given, both timestamps the current instant.
NewItem(args) ==
    LET identifier == IF args.policy_type = "default" /\ args.identifier # "default"
                      THEN "default" ELSE args.identifier
        m == args.monthly_token_limit
    IN  [ policy_type |-> args.policy_type, identifier |-> identifier,
          monthly_token_limit |-> Some(m),
          daily_token_limit |-> args.daily_token_limit,
          monthly_cost_limit |-> args.monthly_cost_limit,
          warning_threshold_80 |-> IF args.warning_threshold_80 = None
                                   THEN Some(IntOfTenths(m, 8))
                                   ELSE args.warning_threshold_80,
          warning_threshold_90 |-> IF args.warning_threshold_90 = None
                                   THEN Some(IntOfTenths(m, 9))
                                   ELSE args.warning_threshold_90,
          enforcement_mode |-> Some(args.enforcement_mode),
          enabled |-> Some(args.enabled),
          created_at |-> Some(now), updated_at |-> Some(now),
          created_by |-> args.created_by ]

\* The SET expression without updated_at.
UpdateExpression_KeepsUpdatedAt(item, args) ==
    LET given(field) == args[field] # None
        derived(tenths) == Some(IntOfTenths(args.monthly_token_limit[1], tenths))
        warn_80 == IF given("warning_threshold_80") THEN args.warning_threshold_80
                   ELSE IF given("monthly_token_limit") THEN derived(8)
                   ELSE item.warning_threshold_80
        warn_90 == IF given("warning_threshold_90") THEN args.warning_threshold_90
                   ELSE IF given("monthly_token_limit") THEN derived(9)
                   ELSE item.warning_threshold_90
        set(field) == IF given(field) THEN args[field] ELSE item[field]
    IN  [ item EXCEPT !.monthly_token_limit = set("monthly_token_limit"),
                      !.daily_token_limit = set("daily_token_limit"),
                      !.monthly_cost_limit = set("monthly_cost_limit"),
                      !.warning_threshold_80 = warn_80,
                      !.warning_threshold_90 = warn_90,
                      !.enforcement_mode = set("enforcement_mode"),
                      !.enabled = set("enabled") ]

\* The item after update_policy's SET expression: updated_at, the fields
\* given, and the thresholds derived from a monthly limit given without them.
UpdateExpression(item, args) ==
    LET given(field) == args[field] # None
        derived(tenths) == Some(IntOfTenths(args.monthly_token_limit[1], tenths))
        warn_80 == IF given("warning_threshold_80") THEN args.warning_threshold_80
                   ELSE IF given("monthly_token_limit") THEN derived(8)
                   ELSE item.warning_threshold_80
        warn_90 == IF given("warning_threshold_90") THEN args.warning_threshold_90
                   ELSE IF given("monthly_token_limit") THEN derived(9)
                   ELSE item.warning_threshold_90
        set(field) == IF given(field) THEN args[field] ELSE item[field]
    IN  [ item EXCEPT !.updated_at = Some(now),
                      !.monthly_token_limit = set("monthly_token_limit"),
                      !.daily_token_limit = set("daily_token_limit"),
                      !.monthly_cost_limit = set("monthly_cost_limit"),
                      !.warning_threshold_80 = warn_80,
                      !.warning_threshold_90 = warn_90,
                      !.enforcement_mode = set("enforcement_mode"),
                      !.enabled = set("enabled") ]

\* _make_pk of the call's arguments as they were passed.
ArgsKey(args) == PolicyKey(args.policy_type, args.identifier)

Without(table, key) == [ k \in DOMAIN table \ {key} |-> table[k] ]

\* What a call returns or raises.
Returns(policy, deleted) == [ raised |-> None, policy |-> policy, deleted |-> deleted ]
Raises(error) == [ raised |-> Some(error), policy |-> None, deleted |-> None ]

\* list_policies returns the policies of the items it was given.
ReturnsList(policies) ==
    [ raised |-> None, policy |-> None, deleted |-> None, policies |-> policies ]

\* A call in progress, of an administrator who makes no other call.
NewAdminCall(op, args) ==
    [ op |-> op, args |-> args, pc |-> "start", existing |-> None, result |-> None,
      menu |-> {}, left |-> 0, past |-> << >> ]

\* An administrator about to make up to `left` calls out of `menu`, one
\* after the other.
NewAdmin(menu, left) ==
    [ op |-> "none", args |-> << >>, pc |-> "done", existing |-> None, result |-> None,
      menu |-> menu, left |-> left, past |-> << >> ]

\* What may go wrong with a call of the store: an error response, which
\* boto3 raises as ClientError, or a read timeout, which it raises as
\* ReadTimeoutError, an exception that is no ClientError.
ClientErrorFault == << "policies", "ClientError" >>
TimeoutFault == << "policies", "ReadTimeoutError" >>

\* Administrator a's call ends.
Finish(a, result) ==
    admin_calls' = [admin_calls EXCEPT ![a].pc = "done", ![a].result = Some(result)]

AdminFrame ==
    /\ UNCHANGED << usage_items, unblock_items, now, event, fail >>
    /\ UNCHANGED << pc, call, previous, invocations, table_before >>

\* The store call of administrator a's step raises: "except ClientError"
\* wraps a ClientError in QuotaPolicyError, any other exception leaves the
\* call as it is.
StoreCallFails(a) ==
    /\ \E fault \in fail \cap {ClientErrorFault, TimeoutFault} :
           Finish(a, Raises(IF fault = ClientErrorFault THEN "QuotaPolicyError"
                            ELSE "ReadTimeoutError"))
    /\ UNCHANGED policies_table

\* create_policy with an unconditional put_item: an existing item is
\* overwritten.
create_policy_Overwrite(a) ==
    LET self == admin_calls[a]
        item == NewItem(self.args)
        key == PolicyKey(item.policy_type, item.identifier)
    IN  /\ self.op = "create" /\ self.pc = "start"
        /\ policies_table' = TableUnion([k \in {key} |-> item], policies_table)
        /\ Finish(a, Returns(Some(item), None))
        /\ AdminFrame

\* create_policy: put_item under the condition attribute_not_exists(pk).
create_policy(a) ==
    LET self == admin_calls[a]
        item == NewItem(self.args)
        key == PolicyKey(item.policy_type, item.identifier)
    IN  /\ self.op = "create" /\ self.pc = "start"
        /\ \/ IF key \in DOMAIN policies_table
              THEN /\ Finish(a, Raises("PolicyAlreadyExistsError"))
                   /\ UNCHANGED policies_table
              ELSE /\ policies_table' = TableUnion([k \in {key} |-> item], policies_table)
                   /\ Finish(a, Returns(Some(item), None))
           \/ StoreCallFails(a)
        /\ AdminFrame

\* update_policy up to its update_item call: the existing policy is read.
update_policy(a) ==
    LET self == admin_calls[a]
        key == ArgsKey(self.args)
    IN  /\ self.op = "update" /\ self.pc = "start"
        /\ \/ /\ IF key \notin DOMAIN policies_table
                 THEN Finish(a, Raises("PolicyNotFoundError"))
                 ELSE admin_calls' = [admin_calls EXCEPT
                          ![a].pc = "update", ![a].existing = Some(policies_table[key])]
              /\ UNCHANGED policies_table
           \/ StoreCallFails(a)
        /\ AdminFrame

\* update_item without the condition attribute_exists(pk): an item with
\* nothing but the attributes of the SET expression is created.
update_item_Upsert(a) ==
    LET self == admin_calls[a]
        key == ArgsKey(self.args)
        blank == [ policy_type |-> self.args.policy_type,
                   identifier |-> self.args.identifier,
                   monthly_token_limit |-> None, daily_token_limit |-> None,
                   monthly_cost_limit |-> None, warning_threshold_80 |-> None,
                   warning_threshold_90 |-> None, enforcement_mode |-> None,
                   enabled |-> None, created_at |-> None, updated_at |-> None,
                   created_by |-> None ]
        old == IF key \in DOMAIN policies_table THEN policies_table[key] ELSE blank
        new == UpdateExpression(old, self.args)
    IN  /\ self.op = "update" /\ self.pc = "update"
        /\ policies_table' = TableUnion([k \in {key} |-> new], policies_table)
        /\ Finish(a, Returns(Some(new), None))
        /\ AdminFrame

\* update_item writing back the policy that update_policy read, with the
\* given fields changed.
update_item_WriteBack(a) ==
    LET self == admin_calls[a]
        key == ArgsKey(self.args)
        new == UpdateExpression(self.existing[1], self.args)
    IN  /\ self.op = "update" /\ self.pc = "update"
        /\ IF key \notin DOMAIN policies_table
           THEN /\ Finish(a, Raises("PolicyNotFoundError"))
                /\ UNCHANGED policies_table
           ELSE /\ policies_table' = [policies_table EXCEPT ![key] = new]
                /\ Finish(a, Returns(Some(new), None))
        /\ AdminFrame

\* update_policy's update_item call: the SET expression under the condition
\* attribute_exists(pk), returning the new item.
update_item(a) ==
    LET self == admin_calls[a]
        key == ArgsKey(self.args)
    IN  /\ self.op = "update" /\ self.pc = "update"
        /\ \/ IF key \notin DOMAIN policies_table
              THEN /\ Finish(a, Raises("PolicyNotFoundError"))
                   /\ UNCHANGED policies_table
              ELSE LET new == UpdateExpression(policies_table[key], self.args)
                   IN  /\ policies_table' = [policies_table EXCEPT ![key] = new]
                       /\ Finish(a, Returns(Some(new), None))
           \/ StoreCallFails(a)
        /\ AdminFrame

\* delete_policy returning True whatever delete_item returned.
delete_policy_AlwaysTrue(a) ==
    LET self == admin_calls[a]
        key == ArgsKey(self.args)
    IN  /\ self.op = "delete" /\ self.pc = "start"
        /\ \/ /\ policies_table' = Without(policies_table, key)
              /\ Finish(a, Returns(None, Some(TRUE)))
           \/ StoreCallFails(a)
        /\ AdminFrame

\* delete_policy: delete_item returning whether there were old attributes.
delete_policy(a) ==
    LET self == admin_calls[a]
        key == ArgsKey(self.args)
    IN  /\ self.op = "delete" /\ self.pc = "start"
        /\ \/ /\ policies_table' = Without(policies_table, key)
              /\ Finish(a, Returns(None, Some(key \in DOMAIN policies_table)))
           \/ StoreCallFails(a)
        /\ AdminFrame

\* QuotaPolicyManager.get_policy: get_item on the key as it was passed.
QuotaPolicyManager_get_policy(a) ==
    LET self == admin_calls[a]
        key == ArgsKey(self.args)
    IN  /\ self.op = "get" /\ self.pc = "start"
        /\ \/ /\ Finish(a, Returns(IF key \in DOMAIN policies_table
                                    THEN Some(policies_table[key]) ELSE None, None))
              /\ UNCHANGED policies_table
           \/ StoreCallFails(a)
        /\ AdminFrame

\* list_policies: a query by policy type, or a scan of every item.
list_policies(a) ==
    LET self == admin_calls[a]
        listed == { k \in DOMAIN policies_table :
                      self.args.policy_type \in {None, Some(k[1])} }
    IN  /\ self.op = "list" /\ self.pc = "start"
        /\ \/ /\ Finish(a, ReturnsList({ policies_table[k] : k \in listed }))
              /\ UNCHANGED policies_table
           \/ StoreCallFails(a)
        /\ AdminFrame

\* The administrator's call has returned or raised; the administrator makes
\* the next call.
next_call(a) ==
    LET self == admin_calls[a]
    IN  /\ self.pc = "done" /\ self.left > 0
        /\ \E next \in self.menu :
               admin_calls' = [admin_calls EXCEPT ![a] =
                   [ op |-> next.op, args |-> next.args, pc |-> "start",
                     existing |-> None, result |-> None,
                     menu |-> self.menu, left |-> self.left - 1,
                     past |-> IF self.op = "none" THEN self.past
                              ELSE Append(self.past,
                                          [ op |-> self.op, args |-> self.args,
                                            result |-> self.result[1] ]) ]]
        /\ UNCHANGED policies_table
        /\ AdminFrame

----------------------------------------------------------------------------
(* Specification of the administration: every administrator makes one call
   on one user's policy key, concurrently; a group's policy is stored
   beside it. *)
AdminCalls(identifier, a) ==
    { NewAdminCall("create", CreateArgs("user", identifier, m, Some(a))) :
        m \in {1, MaxTokens} }
    \cup { NewAdminCall("update", UpdateArgs("user", identifier, m, w, en)) :
             m \in {None, Some(MaxTokens)}, w \in {None, Some(MaxTokens)},
             en \in {None, Some(FALSE)} }
    \cup { NewAdminCall("delete", DeleteArgs("user", identifier)) }

InitAdmin ==
    \E e \in Emails :
        /\ now = 0
        /\ \E user \in OneItem(PolicyKey("user", e),
                               { NewItem(CreateArgs("user", e, 1, None)) }) :
               policies_table =
                   TableUnion(user, [k \in {PolicyKey("group", "g1")} |->
                                        NewItem(CreateArgs("group", "g1", 1, None))])
        /\ table_before = policies_table
        /\ admin_calls \in { calls \in [Admins -> UNION { AdminCalls(e, a) : a \in Admins }] :
                                \A a \in Admins : calls[a] \in AdminCalls(e, a) }
        /\ usage_items = << >>
        /\ unblock_items = << >>
        /\ event = Event(e, << Blank >>)
        /\ fail = {}
        /\ pc = "idle"
        /\ call = NoCall
        /\ previous = None
        /\ invocations = << >>

NextAdmin ==
    \/ \E a \in DOMAIN admin_calls : create_policy(a)
    \/ \E a \in DOMAIN admin_calls : update_policy(a)
    \/ \E a \in DOMAIN admin_calls : update_item(a)
    \/ \E a \in DOMAIN admin_calls : delete_policy(a)

SpecAdmin == InitAdmin /\ [][NextAdmin]_vars

----------------------------------------------------------------------------
(* Specification of the manager: administrators make calls one after the
   other out of a menu.  The first administrator makes up to MaxCalls calls,
   every other one a single call. *)
CallOf(op, args) == [ op |-> op, args |-> args ]

\* The menus of at most two calls out of a set of calls.
MenusOf(calls) == { {c, d} : c \in calls, d \in calls }

\* Calls on a user's policy that differ in the values they pass: thresholds
\* given or not, a new monthly limit or not, a daily limit of 0.
ValueCalls(e) ==
    { CallOf("create", [CreateArgs("user", e, m, Some(1)) EXCEPT
                            !.warning_threshold_80 = w]) :
        m \in {1, MaxTokens}, w \in {None, Some(MaxTokens)} }
    \cup { CallOf("update", [UpdateArgs("user", e, m, w, en) EXCEPT
                                 !.warning_threshold_90 = w,
                                 !.daily_token_limit = d]) :
             m \in {None, Some(MaxTokens)}, w \in {None, Some(0)},
             en \in {None, Some(FALSE)}, d \in {None, Some(0)} }

\* Calls with the Default policy type and any identifier.
DefaultCalls ==
    UNION { { CallOf("create", CreateArgs("default", id, 1, Some(1))),
              CallOf("get", DeleteArgs("default", id)),
              CallOf("update", UpdateArgs("default", id, None, None, Some(FALSE))),
              CallOf("delete", DeleteArgs("default", id)) } :
            id \in {"default", "x"} }

\* Every kind of call on one user's policy.
KindCalls(e) ==
    { CallOf("create", CreateArgs("user", e, 1, Some(1))),
      CallOf("get", DeleteArgs("user", e)),
      CallOf("update", UpdateArgs("user", e, None, None, Some(FALSE))),
      CallOf("delete", DeleteArgs("user", e)),
      CallOf("list", [ policy_type |-> Some("user") ]),
      CallOf("list", [ policy_type |-> None ]) }

OneAdmin(menu) == << NewAdmin(menu, MaxCalls) >>
SeveralAdmins(menu) == [ a \in Admins |-> NewAdmin(menu, IF a = 1 THEN MaxCalls ELSE 1) ]

InitManager ==
    \E e \in Emails :
        /\ now \in {0, MaxTime}
        /\ \E user \in OneItem(PolicyKey("user", e),
                               { NewItem(CreateArgs("user", e, 1, None)) }),
              default \in OneItem(DefaultKey,
                                  { NewItem(CreateArgs("default", "default", 1, None)) }) :
               policies_table =
                   TableUnion(TableUnion(user, default),
                              [k \in {PolicyKey("group", "g1")} |->
                                  NewItem(CreateArgs("group", "g1", 1, None))])
        /\ table_before = policies_table
        /\ \/ /\ now = 0
              /\ DefaultKey \notin DOMAIN policies_table
              /\ admin_calls \in { OneAdmin(menu) : menu \in MenusOf(ValueCalls(e)) }
              /\ fail = {}
           \/ /\ now = MaxTime
              /\ PolicyKey("user", e) \notin DOMAIN policies_table
              /\ admin_calls \in { OneAdmin(menu) : menu \in MenusOf(DefaultCalls) }
              /\ fail = {}
           \/ /\ now = MaxTime
              /\ DefaultKey \notin DOMAIN policies_table
              /\ admin_calls = SeveralAdmins({ c \in KindCalls(e) :
                                                 c.op \in {"create", "get", "delete"} })
              /\ fail = {}
           \/ /\ now = MaxTime
              /\ DefaultKey \notin DOMAIN policies_table
              /\ admin_calls \in { OneAdmin({c}) : c \in KindCalls(e) }
              /\ fail \in { {ClientErrorFault}, {TimeoutFault},
                            {ClientErrorFault, TimeoutFault} }
        /\ usage_items = << >>
        /\ unblock_items = << >>
        /\ event = Event(e, << Blank >>)
        /\ pc = "idle"
        /\ call = NoCall
        /\ previous = None
        /\ invocations = << >>

NextManager ==
    \/ \E a \in DOMAIN admin_calls : next_call(a)
    \/ \E a \in DOMAIN admin_calls : create_policy(a)
    \/ \E a \in DOMAIN admin_calls : QuotaPolicyManager_get_policy(a)
    \/ \E a \in DOMAIN admin_calls : update_policy(a)
    \/ \E a \in DOMAIN admin_calls : update_item(a)
    \/ \E a \in DOMAIN admin_calls : delete_policy(a)
    \/ \E a \in DOMAIN admin_calls : list_policies(a)
    \/ Tick

SpecManager == InitManager /\ [][NextManager]_vars

----------------------------------------------------------------------------
(* Specification of the race: one invocation of the handler, its store
   reads one step each, while an administrator creates, disables and deletes
   policies. *)
RaceCalls(e) ==
    { CallOf("create", CreateArgs("user", e, 1, Some(1))),
      CallOf("create", CreateArgs("default", "default", 1, Some(1))),
      CallOf("update", UpdateArgs("group", "g1", None, None, Some(FALSE))),
      CallOf("delete", DeleteArgs("user", e)),
      CallOf("delete", DeleteArgs("default", "default")) }

InitRace ==
    \E e \in Emails :
        /\ now = MaxTime
        /\ \E user \in OneItem(PolicyKey("user", e),
                               { NewItem(CreateArgs("user", e, 1, None)) }),
              group \in OneItem(PolicyKey("group", "g1"),
                                { NewItem(CreateArgs("group", "g1", 1, None)) }),
              default \in OneItem(DefaultKey,
                                  { NewItem(CreateArgs("default", "default", 1, None)) }) :
               policies_table = TableUnion(TableUnion(user, group), default)
        /\ table_before = policies_table
        /\ admin_calls \in { OneAdmin(menu) : menu \in MenusOf(RaceCalls(e)) }
        /\ usage_items = << >>
        /\ unblock_items = << >>
        /\ event \in { Event(e, << Blank >>), Event(e, << "g1" >>) }
        /\ fail = {}
        /\ pc = "idle"
        /\ call = NoCall
        /\ previous = None
        /\ invocations = << NewInvocation >>

NextRace ==
    \/ \E c \in DOMAIN invocations : ParseRequest(c)
    \/ \E c \in DOMAIN invocations : GetUserPolicy(c)
    \/ \E c \in DOMAIN invocations : GetGroupPolicy(c)
    \/ \E c \in DOMAIN invocations : GetDefaultPolicy(c)
    \/ \E c \in DOMAIN invocations : GetUnblockStatus(c)
    \/ \E c \in DOMAIN invocations : GetUserUsage(c)
    \/ \E a \in DOMAIN admin_calls : next_call(a)
    \/ \E a \in DOMAIN admin_calls : create_policy(a)
    \/ \E a \in DOMAIN admin_calls : update_policy(a)
    \/ \E a \in DOMAIN admin_calls : update_item(a)
    \/ \E a \in DOMAIN admin_calls : delete_policy(a)

SpecRace == InitRace /\ [][NextRace]_vars

NextResolve == lambda_handler \/ Return

SpecResolve == InitResolve /\ [][NextResolve]_vars

----------------------------------------------------------------------------
(* Properties of the decision *)

Returned == pc = "done"
TheBody == call.response[1].body
Resolved == call.locals.policy # None
ThePolicy == call.locals.policy[1]
TheOverride == call.locals.unblock_status[1]
TheUsage == call.locals.usage[1]

\* The get_item calls that raised during the invocation.
FailedReads == call.reads \cap fail

MonthlyReached(usage, policy) ==
    policy.monthly_token_limit > 0 /\ usage.total_tokens >= policy.monthly_token_limit
DailyReached(usage, policy) ==
    /\ policy.daily_token_limit # None
    /\ policy.daily_token_limit[1] > 0
    /\ usage.daily_tokens >= policy.daily_token_limit[1]
CostReached(usage, policy) ==
    /\ policy.monthly_cost_limit # None
    /\ policy.monthly_cost_limit[1] > 0
    /\ usage.estimated_cost >= policy.monthly_cost_limit[1]

\* C1: the response has allowed = false exactly when a policy was resolved, its
\* enforcement mode is block, the override check reported no active override and
\* the usage read reaches a configured limit greater than 0 (monthly tokens,
\* daily tokens or monthly cost); every other response has allowed = true, and
\* under a monthly limit of 0 the response is never monthly_exceeded.
C1_BlockedIffBlockModeAndLimitReached ==
    Returned =>
        /\ TheBody.allowed \in BOOLEAN
        /\ (~ TheBody.allowed) <=>
              /\ Resolved
              /\ ThePolicy.enforcement_mode = "block"
              /\ ~ TheOverride.is_unblocked
              /\ \/ MonthlyReached(TheUsage, ThePolicy)
                 \/ DailyReached(TheUsage, ThePolicy)
                 \/ CostReached(TheUsage, ThePolicy)
        /\ (Resolved /\ ThePolicy.monthly_token_limit = 0)
              => TheBody.reason # "monthly_exceeded"

\* A block by the daily limit alone, under an unlimited monthly limit that the
\* usage is above.
C1_Witness ==
    /\ Returned /\ Resolved
    /\ ~ TheBody.allowed
    /\ ThePolicy.monthly_token_limit = 0
    /\ TheUsage.total_tokens > 0
    /\ TheBody.reason = "daily_exceeded"

\* C2: a response of an invocation in which a read of the policy, usage or
\* override items failed has allowed = true and reason = check_failed, with no
\* enforcement mode, usage summary, policy reference or override snapshot.
C2_FailedReadGivesCheckFailed ==
    (Returned /\ FailedReads # {}) =>
        /\ TheBody.allowed
        /\ TheBody.reason = "check_failed"
        /\ TheBody.enforcement_mode = None
        /\ TheBody.usage = None
        /\ TheBody.policy = None
        /\ TheBody.unblock_status = None

\* C3: a response of an invocation in which a read of a policy, of the override
\* or of the usage failed never has allowed = false.
C3_NoBlockWhenReadFailed ==
    (Returned /\ FailedReads # {}) => TheBody.allowed

\* C8 as claimed: under a resolved policy in alert mode the response is always
\* allowed with reason = within_quota.
C8_AlertAlwaysWithinQuota ==
    (Returned /\ Resolved /\ ThePolicy.enforcement_mode = "alert") =>
        TheBody.allowed /\ TheBody.reason = "within_quota"

\* C8: under a resolved policy in alert mode the response is always allowed,
\* whatever the usage; its reason is within_quota unless the override check
\* reported an active override, and unblocked when it did.
C8_AlertNeverBlocks ==
    (Returned /\ Resolved /\ ThePolicy.enforcement_mode = "alert") =>
        /\ TheBody.allowed
        /\ TheBody.reason =
              IF TheOverride.is_unblocked THEN "unblocked" ELSE "within_quota"

\* Alert mode, no override, usage at or above every configured limit.
C8_Witness ==
    /\ Returned /\ Resolved
    /\ ThePolicy.enforcement_mode = "alert"
    /\ ~ TheOverride.is_unblocked
    /\ MonthlyReached(TheUsage, ThePolicy)
    /\ DailyReached(TheUsage, ThePolicy)
    /\ CostReached(TheUsage, ThePolicy)
    /\ TheUsage.total_tokens > ThePolicy.monthly_token_limit
    /\ TheBody.reason = "within_quota"

\* C9: under a resolved block-mode policy and no active override, usage equal to
\* a positive limit blocks and usage one below it does not: total_tokens = L
\* gives monthly_exceeded; total_tokens = L - 1 with no daily or cost limit
\* reached gives within_quota; and likewise for the daily and the cost limit
\* when no earlier limit is reached.
C9_InclusiveLimits ==
    (Returned /\ Resolved /\ ThePolicy.enforcement_mode = "block"
        /\ ~ TheOverride.is_unblocked) =>
        LET L == ThePolicy.monthly_token_limit
            D == ThePolicy.daily_token_limit
            K == ThePolicy.monthly_cost_limit
            u == TheUsage
        IN  /\ (L > 0 /\ u.total_tokens = L)
                  => (~ TheBody.allowed /\ TheBody.reason = "monthly_exceeded")
            /\ (L > 0 /\ u.total_tokens = L - 1
                  /\ ~ DailyReached(u, ThePolicy) /\ ~ CostReached(u, ThePolicy))
                  => (TheBody.allowed /\ TheBody.reason = "within_quota")
            /\ (D # None /\ D[1] > 0 /\ ~ MonthlyReached(u, ThePolicy))
                  => /\ u.daily_tokens = D[1]
                          => (~ TheBody.allowed /\ TheBody.reason = "daily_exceeded")
                     /\ (u.daily_tokens = D[1] - 1 /\ ~ CostReached(u, ThePolicy))
                          => (TheBody.allowed /\ TheBody.reason = "within_quota")
            /\ (K # None /\ K[1] > 0 /\ ~ MonthlyReached(u, ThePolicy)
                  /\ ~ DailyReached(u, ThePolicy))
                  => /\ u.estimated_cost = K[1]
                          => (~ TheBody.allowed /\ TheBody.reason = "cost_exceeded")
                     /\ u.estimated_cost = K[1] - 1
                          => (TheBody.allowed /\ TheBody.reason = "within_quota")

\* Usage exactly at the largest monthly limit, blocked.
C9_Witness ==
    /\ Returned /\ Resolved
    /\ ThePolicy.enforcement_mode = "block"
    /\ ThePolicy.monthly_token_limit = MaxTokens
    /\ TheUsage.total_tokens = MaxTokens
    /\ TheBody.reason = "monthly_exceeded"
    /\ ~ TheBody.allowed

\* C10: under a resolved block-mode policy and no active override the reason is
\* that of the first reached limit in the order monthly tokens, daily tokens,
\* monthly cost.
C10_FirstReachedLimit ==
    (Returned /\ Resolved /\ ThePolicy.enforcement_mode = "block"
        /\ ~ TheOverride.is_unblocked) =>
        LET m == MonthlyReached(TheUsage, ThePolicy)
            d == DailyReached(TheUsage, ThePolicy)
            c == CostReached(TheUsage, ThePolicy)
        IN  /\ m => TheBody.reason = "monthly_exceeded"
            /\ (~ m /\ d) => TheBody.reason = "daily_exceeded"
            /\ (~ m /\ ~ d /\ c) => TheBody.reason = "cost_exceeded"
            /\ TheBody.reason = "daily_exceeded" => (~ m /\ d)
            /\ TheBody.reason = "cost_exceeded" => (~ m /\ ~ d /\ c)

\* All three limits reached at once.
C10_Witness ==
    /\ Returned /\ Resolved
    /\ ThePolicy.enforcement_mode = "block"
    /\ ~ TheOverride.is_unblocked
    /\ MonthlyReached(TheUsage, ThePolicy)
    /\ DailyReached(TheUsage, ThePolicy)
    /\ CostReached(TheUsage, ThePolicy)
    /\ TheBody.reason = "monthly_exceeded"

----------------------------------------------------------------------------
(* Properties of the resolver *)

TheEmail == event.email
TheGroups == ParseGroups(event.groups_param)
UserKey == PolicyKey("user", TheEmail)
GroupKey(i) == PolicyKey("group", TheGroups[i])
ListedGroupKeys == {GroupKey(i) : i \in 1 .. Len(TheGroups)}

\* What policies_table holds, whether or not a read of it succeeds.
StoredEnabled(key) ==
    key \in DOMAIN policies_table /\ Get(policies_table[key].enabled, TRUE)
StoredLimit(key) == Get(policies_table[key].monthly_token_limit, 0)

\* The response names the policy the handler resolved.
Names(type, identifier) ==
    /\ Resolved
    /\ ThePolicy.policy_type = type
    /\ ThePolicy.identifier = identifier
    /\ TheBody.policy = Some([ type |-> type, identifier |-> identifier ])

\* C4: when policies_table holds an enabled user policy for the email and the
\* read of it succeeds, the handler resolves that user policy, for every groups
\* list and whatever group and default policies exist.
C4_UserPolicyWins ==
    (Returned /\ TheEmail # NoEmail /\ UserKey \notin fail /\ StoredEnabled(UserKey)) =>
        /\ Names("user", TheEmail)
        /\ ThePolicy.monthly_token_limit = StoredLimit(UserKey)

\* An enabled user policy beside an enabled policy of a listed group with a
\* lower limit and an enabled default policy with a lower limit.
C4_Witness ==
    /\ Returned /\ Resolved
    /\ StoredEnabled(UserKey) /\ StoredEnabled(DefaultKey)
    /\ \E k \in ListedGroupKeys :
          StoredEnabled(k) /\ 0 < StoredLimit(k) /\ StoredLimit(k) < StoredLimit(UserKey)
    /\ StoredLimit(DefaultKey) < StoredLimit(UserKey)
    /\ ThePolicy.policy_type = "user"

\* C5: when policies_table holds no enabled user policy for the email and an
\* enabled policy for at least one listed group, and the reads of the listed
\* groups' policies succeed, the handler resolves the policy of the earliest
\* listed group among those whose enabled policy has the lowest monthly limit.
C5_MostRestrictiveGroupWins ==
    (Returned /\ TheEmail # NoEmail /\ ~ StoredEnabled(UserKey)
        /\ (\E k \in ListedGroupKeys : StoredEnabled(k))
        /\ ListedGroupKeys \cap fail = {}) =>
        LET enabled == {i \in 1 .. Len(TheGroups) : StoredEnabled(GroupKey(i))}
            lowest == {i \in enabled :
                         \A j \in enabled : StoredLimit(GroupKey(i)) <= StoredLimit(GroupKey(j))}
            first == CHOOSE i \in lowest : \A j \in lowest : i <= j
        IN  /\ Names("group", TheGroups[first])
            /\ ThePolicy.monthly_token_limit = StoredLimit(GroupKey(first))

\* Two listed groups with enabled policies of the same lowest limit, beside an
\* enabled default policy: the first listed group's policy is resolved.
C5_Witness ==
    /\ Returned /\ Resolved
    /\ ~ StoredEnabled(UserKey) /\ StoredEnabled(DefaultKey)
    /\ Len(TheGroups) = 2 /\ TheGroups[1] # TheGroups[2]
    /\ StoredEnabled(GroupKey(1)) /\ StoredEnabled(GroupKey(2))
    /\ StoredLimit(GroupKey(1)) = StoredLimit(GroupKey(2))
    /\ ThePolicy.policy_type = "group"
    /\ ThePolicy.identifier = TheGroups[1]

\* C6: when the user policy is missing or disabled and no listed group has an
\* enabled policy, and the read of the default policy succeeds, the handler
\* resolves the default policy if it exists and is enabled, and no policy
\* otherwise: a disabled policy counts as absent at every scope.
C6_DisabledIsAbsent ==
    (Returned /\ TheEmail # NoEmail /\ ~ StoredEnabled(UserKey)
        /\ (\A k \in ListedGroupKeys : ~ StoredEnabled(k))
        /\ DefaultKey \notin fail) =>
        IF StoredEnabled(DefaultKey)
        THEN Names("default", "default")
        ELSE ~ Resolved /\ TheBody.policy = None

\* A disabled user policy and a disabled policy of a listed group: the enabled
\* default policy is resolved.
C6_Witness ==
    /\ Returned /\ Resolved
    /\ UserKey \in DOMAIN policies_table /\ ~ StoredEnabled(UserKey)
    /\ \E k \in ListedGroupKeys : k \in DOMAIN policies_table /\ ~ StoredEnabled(k)
    /\ ThePolicy.policy_type = "default"

\* C7: when policies_table holds no enabled user policy for the email, no
\* enabled policy for a listed group and no enabled default policy, the
\* response is allowed with reason = no_policy, whatever usage and override
\* items exist.
C7_NoPolicyAllows ==
    (Returned /\ TheEmail # NoEmail /\ ~ StoredEnabled(UserKey)
        /\ (\A k \in ListedGroupKeys : ~ StoredEnabled(k))
        /\ ~ StoredEnabled(DefaultKey)) =>
        /\ TheBody.allowed
        /\ TheBody.reason = "no_policy"

\* Disabled user and default policies, a usage that reaches their limits and
\* an override: no_policy.
C7_Witness ==
    /\ Returned
    /\ UserKey \in DOMAIN policies_table /\ DefaultKey \in DOMAIN policies_table
    /\ usage_items # << >> /\ unblock_items # << >>
    /\ TheBody.reason = "no_policy"

----------------------------------------------------------------------------
(* Properties of the override *)

\* C11: whenever a policy is resolved and the override check reports an active
\* override, the response is allowed with reason = unblocked, in either
\* enforcement mode and for every usage; the summary of the usage read and the
\* override's status are attached to it.
C11_ActiveOverrideUnblocks ==
    (Returned /\ Resolved /\ TheOverride.is_unblocked) =>
        /\ TheBody.allowed
        /\ TheBody.reason = "unblocked"
        /\ TheBody.enforcement_mode = Some(ThePolicy.enforcement_mode)
        /\ TheBody.usage = Some(build_usage_summary(TheUsage, ThePolicy))
        /\ TheBody.unblock_status = Some(TheOverride)

\* An unexpired override item, a block-mode policy and a usage that reaches
\* all three limits.
C11_Witness ==
    /\ Returned /\ Resolved
    /\ TheEmail \in DOMAIN unblock_items
    /\ TheOverride.is_unblocked
    /\ ThePolicy.enforcement_mode = "block"
    /\ MonthlyReached(TheUsage, ThePolicy)
    /\ DailyReached(TheUsage, ThePolicy)
    /\ CostReached(TheUsage, ThePolicy)
    /\ TheBody.usage[1].monthly_tokens = TheUsage.total_tokens
    /\ TheBody.reason = "unblocked"

\* The stored override item and usage item the invocation's reads address.
HasOverrideItem == TheEmail \in DOMAIN unblock_items
TheOverrideItem == unblock_items[TheEmail]
TheUsageKey == UsageKey(TheEmail, MonthOf(now))
HasUsageItem == TheUsageKey \in DOMAIN usage_items
TheUsageItem == usage_items[TheUsageKey]
OverrideRead == Returned /\ Resolved /\ UnblockRead \notin fail
UsageWasRead == Returned /\ Resolved /\ UsageRead \notin fail /\ ~TheOverride.is_unblocked

\* C12: when the override read succeeds, the status is is_unblocked = false
\* without an expired flag if no override item is stored, is_unblocked = false
\* with expired = true if an item is stored and now > expires_at, and
\* is_unblocked = true with the item's metadata otherwise; an item carrying
\* expires_at is active exactly while now <= expires_at.
C12_UnblockStatus ==
    OverrideRead =>
        /\ ~TheOverride.error
        /\ ~HasOverrideItem => TheOverride = NotUnblocked
        /\ HasOverrideItem =>
            LET expires_at == TheOverrideItem.expires_at
                past == expires_at # None /\ now > expires_at[1]
            IN  /\ past => ~TheOverride.is_unblocked /\ TheOverride.expired
                /\ ~past =>
                    /\ TheOverride.is_unblocked /\ ~TheOverride.expired
                    /\ TheOverride.expires_at = expires_at
                    /\ TheOverride.unblocked_by = TheOverrideItem.unblocked_by
                /\ expires_at # None =>
                    (TheOverride.is_unblocked <=> now <= expires_at[1])

\* The override is read at the very instant it expires, after time has passed,
\* and is active.
C12_Witness ==
    /\ OverrideRead /\ HasOverrideItem
    /\ now > 0
    /\ TheOverrideItem.expires_at = Some(now)
    /\ TheOverride.is_unblocked

\* C13: under a block-mode policy with a limit reached by the usage of the
\* invocation's instant, a stored override item carrying expires_at gives
\* allowed with reason = unblocked at every instant up to and including
\* expires_at, and at every later instant the blocked response of a user
\* without override item: the first reached limit as reason and the status
\* get_unblock_status gives when no item is stored.
C13_OverrideExpires ==
    ( /\ OverrideRead /\ HasOverrideItem
      /\ TheOverrideItem.expires_at # None
      /\ ThePolicy.enforcement_mode = "block"
      /\ CheckLimits(TheUsage, ThePolicy) # "within_quota" ) =>
        IF now <= TheOverrideItem.expires_at[1]
        THEN TheBody.allowed /\ TheBody.reason = "unblocked"
        ELSE TheBody = Body(FALSE, CheckLimits(TheUsage, ThePolicy), Some("block"),
                            Some(build_usage_summary(TheUsage, ThePolicy)),
                            Some(PolicyRef(ThePolicy)), Some(NotUnblocked))

\* An override that was active at time 0 has expired and the stored item
\* no longer keeps the user from being blocked.
C13_Witness ==
    /\ OverrideRead /\ HasOverrideItem
    /\ TheOverrideItem.expires_at = Some(0)
    /\ now > 0
    /\ ~TheBody.allowed
    /\ TheBody.reason = "monthly_exceeded"
    /\ TheBody.unblock_status = Some(NotUnblocked)

\* The daily count of the evaluation is the stored daily_tokens when
\* the stored daily_date is the current date and 0 otherwise; the reason is
\* never daily_exceeded for an item whose daily_date is not today, a user
\* whom only the daily limit blocked on daily_date is allowed on every other
\* date of the month.
C14_DailyCount ==
    /\ (UsageWasRead /\ HasUsageItem) =>
        /\ TheUsage.daily_tokens =
               IF TheUsageItem.daily_date = Some(DayOf(now))
               THEN TheUsageItem.daily_tokens[1] ELSE 0
        /\ TheUsageItem.daily_date # Some(DayOf(now)) =>
               /\ TheBody.reason # "daily_exceeded"
               /\ ( /\ ~MonthlyReached(TheUsage, ThePolicy)
                    /\ ~CostReached(TheUsage, ThePolicy) ) =>
                       TheBody.allowed /\ TheBody.reason = "within_quota"
    /\ (Returned /\ TheBody.reason = "daily_exceeded") =>
           HasUsageItem /\ TheUsageItem.daily_date = Some(DayOf(now))

\* The day after the stored daily count reached the daily limit of a block
\* policy, the same stored item no longer blocks.
C14_Witness ==
    /\ UsageWasRead /\ HasUsageItem
    /\ ThePolicy.enforcement_mode = "block"
    /\ ThePolicy.daily_token_limit # None
    /\ TheUsageItem.daily_tokens[1] >= ThePolicy.daily_token_limit[1]
    /\ TheUsageItem.daily_date = Some(DayOf(now) - 1)
    /\ TheBody.allowed /\ TheBody.reason = "within_quota"

\* C14: the daily count above at every instant, and no step rewrites a usage
\* item.
C14_DailyRollover == []C14_DailyCount /\ [][usage_items' = usage_items]_vars

----------------------------------------------------------------------------
(* Repeated invocations *)

\* C16 as stated: an invocation for the same email and groups, with the three
\* tables unchanged since the invocation before, returns the same response.
C16_SameRequestSameDecision ==
    (Returned /\ previous # None) => call.response[1] = previous[1].response

\* C16: an invocation for the same email and groups at the same instant and
\* with the same outcome of every read, with the three tables unchanged since
\* the invocation before, returns the same decision: allowed, reason,
\* enforcement mode, usage summary, policy reference and override status.
C16_SameInstantSameDecision ==
    (Returned /\ previous # None /\ previous[1].at = now) =>
        call.response[1] = previous[1].response

\* A second invocation at the instant of the first, after time has passed:
\* both answers are the block of an expired override's user.
C16_Witness ==
    /\ Returned /\ Resolved
    /\ previous # None /\ previous[1].at = now
    /\ now > 0
    /\ HasOverrideItem /\ TheOverride.expired
    /\ ~TheBody.allowed
    /\ ~previous[1].response.body.allowed

----------------------------------------------------------------------------
(* Concurrent invocations *)

\* C17: no step of an invocation, on any of its paths, changes the policy,
\* usage or override items, and every one of the concurrent invocations
\* returns, in every interleaving of their reads, the response of the
\* handler run alone.
C17_ReadOnly ==
    /\ [](\A c \in DOMAIN invocations :
            invocations[c].pc = "done" =>
                invocations[c].response = Some(Handle(event).response))
    /\ [][UNCHANGED << policies_table, usage_items, unblock_items >>]_vars

\* One invocation has answered on the daily-rollover path, with an expired
\* override, while another is still between its reads.
C17_Witness ==
    \E c, o \in DOMAIN invocations :
        /\ invocations[c].pc = "done"
        /\ invocations[c].unblock_status # None
        /\ invocations[c].unblock_status[1].expired
        /\ invocations[c].usage[1].daily_tokens = 0
        /\ UsageKey(event.email, MonthOf(now)) \in DOMAIN usage_items
        /\ usage_items[UsageKey(event.email, MonthOf(now))].daily_tokens = Some(MaxTokens)
        /\ usage_items[UsageKey(event.email, MonthOf(now))].daily_date # Some(DayOf(now))
        /\ invocations[o].pc = "unblock"

----------------------------------------------------------------------------
(* Policy administration *)
TheKey == ArgsKey(admin_calls[1].args)
Stored == TheKey \in DOMAIN policies_table
Done(a) == admin_calls[a].pc = "done"
AllDone == \A a \in DOMAIN admin_calls : Done(a)
Raised(a, error) == Done(a) /\ admin_calls[a].result[1].raised = Some(error)
Succeeded(a) == Done(a) /\ admin_calls[a].result[1].raised = None
Ops == { admin_calls[a].op : a \in DOMAIN admin_calls }

\* Administrator a takes the last step of its call.
Ends(a) == ~Done(a) /\ admin_calls'[a].pc = "done"
\* Administrator a takes a step.
Steps(a) == admin_calls'[a] # admin_calls[a]

\* C18: a create_policy for a key that has an item raises
\* PolicyAlreadyExistsError and leaves the table as it is; when all the calls
\* are create_policy for one key, at most one succeeds, and once all have
\* ended exactly one has succeeded if the key had no item, and none if it had.
C18_CreateOnce ==
    /\ [][\A a \in DOMAIN admin_calls :
            (admin_calls[a].op = "create" /\ Ends(a) /\ Stored) =>
                /\ admin_calls'[a].result[1].raised = Some("PolicyAlreadyExistsError")
                /\ policies_table' = policies_table]_vars
    /\ [](Ops = {"create"} =>
            /\ Cardinality({ a \in DOMAIN admin_calls : Succeeded(a) }) <= 1
            /\ AllDone =>
                 /\ Cardinality({ a \in DOMAIN admin_calls : Succeeded(a) }) =
                        IF TheKey \in DOMAIN table_before THEN 0 ELSE 1
                 /\ \A a \in DOMAIN admin_calls :
                        Succeeded(a) \/ Raised(a, "PolicyAlreadyExistsError"))

\* Two concurrent create_policy calls for a key without item have ended: one
\* created the item that is stored, the other raised.
C18_Witness ==
    /\ admin_calls # << >> /\ Ops = {"create"} /\ AllDone
    /\ TheKey \notin DOMAIN table_before
    /\ \E a, o \in DOMAIN admin_calls :
        /\ Succeeded(a)
        /\ Stored /\ policies_table[TheKey] = admin_calls[a].result[1].policy[1]
        /\ Raised(o, "PolicyAlreadyExistsError")
        /\ admin_calls[o].args.monthly_token_limit # admin_calls[a].args.monthly_token_limit

\* C19: a step of update_policy that finds no item under the key, be it the
\* read of the existing policy or the conditional write after it, ends the
\* call with PolicyNotFoundError and leaves the table as it is: no item is
\* created.
C19_UpdateNeverCreates ==
    [][\A a \in DOMAIN admin_calls :
         (admin_calls[a].op = "update" /\ Steps(a) /\ ~Stored) =>
             /\ admin_calls'[a].pc = "done"
             /\ admin_calls'[a].result[1].raised = Some("PolicyNotFoundError")
             /\ policies_table' = policies_table]_vars

\* An update_policy that had read the existing policy raised
\* PolicyNotFoundError, a concurrent delete_policy having removed the item in
\* between; the key has no item.
C19_Witness ==
    /\ admin_calls # << >>
    /\ \E a, o \in DOMAIN admin_calls :
        /\ admin_calls[a].op = "update"
        /\ admin_calls[a].existing # None
        /\ Raised(a, "PolicyNotFoundError")
        /\ admin_calls[o].op = "delete"
        /\ Succeeded(o) /\ admin_calls[o].result[1].deleted = Some(TRUE)
    /\ ~Stored

\* The calls run alone, one after the other in the given order, from a table.
CallAlone(table, self) ==
    LET key == ArgsKey(self.args)
    IN  IF self.op = "create"
        THEN LET item == NewItem(self.args)
                 pk == PolicyKey(item.policy_type, item.identifier)
             IN  IF pk \in DOMAIN table
                 THEN [ table |-> table, result |-> Raises("PolicyAlreadyExistsError") ]
                 ELSE [ table |-> TableUnion([k \in {pk} |-> item], table),
                        result |-> Returns(Some(item), None) ]
        ELSE IF self.op = "update"
        THEN IF key \notin DOMAIN table
             THEN [ table |-> table, result |-> Raises("PolicyNotFoundError") ]
             ELSE LET new == UpdateExpression(table[key], self.args)
                  IN  [ table |-> [table EXCEPT ![key] = new],
                        result |-> Returns(Some(new), None) ]
        ELSE [ table |-> Without(table, key),
               result |-> Returns(None, Some(key \in DOMAIN table)) ]

RECURSIVE OneAfterTheOther(_, _, _)
OneAfterTheOther(table, order, results) ==
    IF order = << >> THEN [ table |-> table, results |-> results ]
    ELSE LET a == Head(order)
             r == CallAlone(table, admin_calls[a])
         IN  OneAfterTheOther(r.table, Tail(order),
                              [results EXCEPT ![a] = r.result])

Orders ==
    { order \in [1 .. NumAdmins -> Admins] :
        \A i, j \in 1 .. NumAdmins : i # j => order[i] # order[j] }

\* C20: once the concurrent calls on one key have ended, the table and the
\* result of every call are those of the calls run one after the other in
\* some order; at every step the items of other keys are as before.
C20_Linearizable ==
    admin_calls # << >> =>
        /\ \A k \in DOMAIN table_before \ {TheKey} :
               k \in DOMAIN policies_table /\ policies_table[k] = table_before[k]
        /\ DOMAIN policies_table \subseteq DOMAIN table_before \cup {TheKey}
        /\ AllDone =>
             \E order \in Orders :
                LET alone == OneAfterTheOther(table_before, order,
                                              [a \in Admins |-> Raises("none")])
                IN  /\ alone.table = policies_table
                    /\ \A a \in Admins : alone.results[a] = admin_calls[a].result[1]

\* Two update_policy calls whose reads both came before either write have
\* succeeded, and the stored item has the fields of both.
C20_Witness ==
    /\ admin_calls # << >> /\ AllDone
    /\ \E a, o \in DOMAIN admin_calls :
        /\ a # o
        /\ admin_calls[a].op = "update" /\ admin_calls[o].op = "update"
        /\ Succeeded(a) /\ Succeeded(o)
        /\ admin_calls[a].args.enabled = Some(FALSE)
        /\ admin_calls[a].args.monthly_token_limit = None
        /\ admin_calls[o].args.enabled = None
        /\ admin_calls[o].args.monthly_token_limit = Some(MaxTokens)
        /\ admin_calls[a].existing = admin_calls[o].existing
        /\ Stored
        /\ policies_table[TheKey].enabled = Some(FALSE)
        /\ policies_table[TheKey].monthly_token_limit = Some(MaxTokens)

----------------------------------------------------------------------------
(* The manager's calls, made one after the other *)
Making(a, op) == admin_calls[a].op = op
\* Administrator a's call of the operation ends without raising.
EndsWell(a, op) ==
    /\ Making(a, op) /\ Ends(a)
    /\ admin_calls'[a].result[1].raised = None
Ended(a) == admin_calls[a].op # "none" /\ Done(a)
\* The calls administrator a has made and that have ended.
CallsOf(a) ==
    LET self == admin_calls[a]
    IN  IF Ended(a)
        THEN Append(self.past, [ op |-> self.op, args |-> self.args,
                                 result |-> self.result[1] ])
        ELSE self.past
\* The calls made, ended or not.
OpsMade ==
    UNION { { CallsOf(a)[i].op : i \in DOMAIN CallsOf(a) } \cup {admin_calls[a].op} :
            a \in DOMAIN admin_calls }

ValidLimits(item) ==
    /\ item.monthly_token_limit # None => item.monthly_token_limit[1] >= 0
    /\ item.daily_token_limit # None => item.daily_token_limit[1] > 0
    /\ item.monthly_cost_limit # None => item.monthly_cost_limit[1] > 0

\* C21: every stored policy has a monthly limit of at least 0 and, when set,
\* a daily limit and a cost limit above 0; an update_policy that was given a
\* limit outside these ranges has not ended without raising.
C21_Validation ==
    /\ \A k \in DOMAIN policies_table : ValidLimits(policies_table[k])
    /\ \A a \in DOMAIN admin_calls :
           (Making(a, "update") /\ Done(a) /\ ~ValidLimits(admin_calls[a].args)) =>
               admin_calls[a].result[1].raised # None

RoundedDown(m, tenths) == (m * tenths) \div 10

\* C22: a create_policy or update_policy that ends without raising stores
\* and returns, for each warning threshold, the threshold given; without one,
\* 80% (90%) of the monthly limit given, rounded down; and, update_policy
\* given neither, the threshold stored before.
C22_Thresholds ==
    [][\A a \in DOMAIN admin_calls :
         (EndsWell(a, "create") \/ EndsWell(a, "update")) =>
             LET args == admin_calls[a].args
                 new == admin_calls'[a].result[1].policy[1]
                 key == PolicyKey(new.policy_type, new.identifier)
                 monthly == IF Making(a, "create") THEN Some(args.monthly_token_limit)
                            ELSE args.monthly_token_limit
                 threshold(field, tenths) ==
                     IF args[field] # None THEN args[field]
                     ELSE IF monthly # None THEN Some(RoundedDown(monthly[1], tenths))
                     ELSE policies_table[key][field]
             IN  /\ key \in DOMAIN policies_table' /\ policies_table'[key] = new
                 /\ new.warning_threshold_80 = threshold("warning_threshold_80", 8)
                 /\ new.warning_threshold_90 = threshold("warning_threshold_90", 9)]_vars

\* A policy created with the monthly limit MaxTokens and no thresholds has
\* the thresholds rounded down; the administrator's next call, an
\* update_policy given thresholds and nothing else, has replaced them.
C22_Witness ==
    /\ admin_calls # << >>
    /\ \E a \in DOMAIN admin_calls :
        /\ Making(a, "update") /\ Succeeded(a)
        /\ admin_calls[a].args.monthly_token_limit = None
        /\ admin_calls[a].args.warning_threshold_80 = Some(0)
        /\ Len(admin_calls[a].past) = 1
        /\ LET first == admin_calls[a].past[1]
           IN  /\ first.op = "create" /\ first.result.raised = None
               /\ first.args.monthly_token_limit = MaxTokens
               /\ first.args.warning_threshold_80 = None
               /\ first.result.policy[1].warning_threshold_80 =
                      Some(RoundedDown(MaxTokens, 8))
               /\ RoundedDown(MaxTokens, 8) * 10 < MaxTokens * 8
        /\ policies_table[ArgsKey(admin_calls[a].args)].warning_threshold_80 = Some(0)
        /\ policies_table[ArgsKey(admin_calls[a].args)].monthly_token_limit = Some(MaxTokens)

\* C23: an update_policy that ends without raising leaves every other item
\* as it is and changes, of the key's item, updated_at to the current
\* instant, the fields it was given to the values given, and the thresholds
\* not given when a monthly limit was; policy_type, identifier, created_at,
\* created_by and every other field not given are as stored.
C23_UpdateFrame ==
    [][\A a \in DOMAIN admin_calls :
         EndsWell(a, "update") =>
             LET args == admin_calls[a].args
                 key == ArgsKey(args)
                 old == policies_table[key]
                 new == policies_table'[key]
                 kept(field) == new[field] = old[field]
                 set(field) == new[field] = IF args[field] # None THEN args[field]
                                            ELSE old[field]
                 threshold(field) ==
                     /\ args[field] # None => new[field] = args[field]
                     /\ (args[field] = None /\ args.monthly_token_limit = None) =>
                            kept(field)
             IN  /\ key \in DOMAIN policies_table
                 /\ DOMAIN policies_table' = DOMAIN policies_table
                 /\ \A k \in DOMAIN policies_table \ {key} :
                        policies_table'[k] = policies_table[k]
                 /\ kept("policy_type") /\ kept("identifier")
                 /\ kept("created_at") /\ kept("created_by")
                 /\ set("monthly_token_limit") /\ set("daily_token_limit")
                 /\ set("monthly_cost_limit") /\ set("enforcement_mode")
                 /\ set("enabled")
                 /\ threshold("warning_threshold_80")
                 /\ threshold("warning_threshold_90")
                 /\ new.updated_at = Some(now)
                 /\ admin_calls'[a].result[1].policy = Some(new)]_vars

\* A policy stored at instant 0 has been disabled by an update_policy at a
\* later instant: it has the new updated_at and its limit, created_at and
\* created_by as before, and the group's policy is as before.
C23_Witness ==
    /\ admin_calls # << >> /\ now > 0
    /\ \E a \in DOMAIN admin_calls :
        /\ Making(a, "update") /\ Succeeded(a)
        /\ admin_calls[a].past = << >>
        /\ admin_calls[a].args.enabled = Some(FALSE)
        /\ admin_calls[a].args.monthly_token_limit = None
        /\ LET key == ArgsKey(admin_calls[a].args)
           IN  /\ key \in DOMAIN table_before /\ key \in DOMAIN policies_table
               /\ table_before[key].enabled = Some(TRUE)
               /\ table_before[key].updated_at = Some(0)
               /\ policies_table[key] =
                      [table_before[key] EXCEPT !.enabled = Some(FALSE),
                                                !.updated_at = Some(now)]
               /\ \A k \in DOMAIN table_before \ {key} :
                      k \in DOMAIN policies_table /\ policies_table[k] = table_before[k]

\* C24: an item of the Default policy type is stored under the identifier
\* "default"; a get_policy with the Default policy type, whatever the
\* identifier, made by the only administrator, returns the item stored under
\* "default", or none when there is none.
C24_OneDefault ==
    /\ \A k \in DOMAIN policies_table :
           policies_table[k].policy_type = "default" =>
               k = DefaultKey /\ policies_table[k].identifier = "default"
    /\ \A a \in DOMAIN admin_calls :
           (DOMAIN admin_calls = {a} /\ Making(a, "get") /\ Succeeded(a)
               /\ admin_calls[a].args.policy_type = "default") =>
               admin_calls[a].result[1].policy =
                   IF DefaultKey \in DOMAIN policies_table
                   THEN Some(policies_table[DefaultKey]) ELSE None

\* The calls of delete_policy for the key that returned True.
DeletedBy(key) ==
    { c \in UNION { {a} \X DOMAIN CallsOf(a) : a \in DOMAIN admin_calls } :
        LET made == CallsOf(c[1])[c[2]]
        IN  /\ made.op = "delete" /\ ArgsKey(made.args) = key
            /\ made.result.deleted = Some(TRUE) }
EndedDeletes(key) ==
    { c \in UNION { {a} \X DOMAIN CallsOf(a) : a \in DOMAIN admin_calls } :
        LET made == CallsOf(c[1])[c[2]]
        IN  /\ made.op = "delete" /\ ArgsKey(made.args) = key
            /\ made.result.raised = None }

\* C25: a delete_policy that ends without raising returns whether the key
\* had an item and leaves the table without it; a get_policy returns none
\* exactly when the key has no item; a key comes to have an item only by a
\* create_policy that ends without raising; and while no create_policy is
\* made, of the delete_policy calls for a key that have ended, one after the
\* other or concurrently, exactly one has returned True if the key had an
\* item at first, and none otherwise.
C25_DeleteOnce ==
    /\ [][\A a \in DOMAIN admin_calls :
            /\ EndsWell(a, "delete") =>
                 LET key == ArgsKey(admin_calls[a].args)
                 IN  /\ admin_calls'[a].result[1].deleted =
                            Some(key \in DOMAIN policies_table)
                     /\ policies_table' = Without(policies_table, key)
            /\ EndsWell(a, "get") =>
                 LET key == ArgsKey(admin_calls[a].args)
                 IN  admin_calls'[a].result[1].policy = None <=>
                         key \notin DOMAIN policies_table]_vars
    /\ [][\A key \in DOMAIN policies_table' \ DOMAIN policies_table :
            \E a \in DOMAIN admin_calls :
                /\ EndsWell(a, "create")
                /\ admin_calls'[a].result[1].policy = Some(policies_table'[key])]_vars
    /\ []("create" \notin OpsMade =>
            \A a \in DOMAIN admin_calls :
                Making(a, "delete") =>
                    LET key == ArgsKey(admin_calls[a].args)
                    IN  Cardinality(DeletedBy(key)) =
                            IF key \in DOMAIN table_before /\ EndedDeletes(key) # {}
                            THEN 1 ELSE 0)

\* The first administrator's delete_policy returned True and their second
\* returned False, as did another administrator's concurrent one; the key
\* has no item.
C25_Witness ==
    /\ admin_calls # << >>
    /\ \E a, o \in DOMAIN admin_calls :
        /\ a # o
        /\ Making(a, "delete") /\ Succeeded(a)
        /\ admin_calls[a].result[1].deleted = Some(FALSE)
        /\ Len(admin_calls[a].past) = 1
        /\ admin_calls[a].past[1].op = "delete"
        /\ admin_calls[a].past[1].args = admin_calls[a].args
        /\ admin_calls[a].past[1].result.deleted = Some(TRUE)
        /\ Making(o, "delete") /\ Succeeded(o)
        /\ admin_calls[o].args = admin_calls[a].args
        /\ admin_calls[o].result[1].deleted = Some(FALSE)
        /\ ArgsKey(admin_calls[a].args) \notin DOMAIN policies_table

StoreErrors == { "QuotaPolicyError", "PolicyNotFoundError", "PolicyAlreadyExistsError" }

\* C26: a call that has raised has raised one of the manager's own errors,
\* QuotaPolicyError or one of its subclasses.
C26_TypedStoreError ==
    \A a \in DOMAIN admin_calls :
        (Ended(a) /\ admin_calls[a].result[1].raised # None) =>
            admin_calls[a].result[1].raised[1] \in StoreErrors

----------------------------------------------------------------------------
(* The handler's resolution while policies are administered *)
EnabledIn(table, key) == key \in DOMAIN table /\ Get(table[key].enabled, TRUE)

\* The key of the policy in effect for the request in a table: the user's
\* if enabled, else the listed groups' enabled one of lowest monthly limit,
\* the first of these, else the default if enabled, else none.
EffectiveKey(table) ==
    LET listed == { i \in DOMAIN TheGroups : EnabledIn(table, GroupKey(i)) }
        limit(i) == Get(table[GroupKey(i)].monthly_token_limit, 0)
        lowest == { i \in listed : \A j \in listed : limit(i) <= limit(j) }
    IN  IF EnabledIn(table, UserKey) THEN Some(UserKey)
        ELSE IF listed # {}
        THEN Some(GroupKey(CHOOSE i \in lowest : \A j \in lowest : i <= j))
        ELSE IF EnabledIn(table, DefaultKey) THEN Some(DefaultKey)
        ELSE None

\* The tables the store has held: the first one and the one after each call
\* that has ended.
RECURSIVE TablesHeld(_, _)
TablesHeld(table, calls) ==
    IF calls = << >> THEN {table}
    ELSE {table} \cup TablesHeld(CallAlone(table, Head(calls)).table, Tail(calls))

\* The invocation has resolved: it holds a policy or has answered no_policy.
HasResolved(c) == invocations[c].pc \in {"unblock", "usage", "done"}
ResolvedKey(c) ==
    IF invocations[c].policy = None THEN None
    ELSE Some(PolicyKey(invocations[c].policy[1].policy_type,
                        invocations[c].policy[1].identifier))

\* C28: the policy an invocation has resolved, or none when it answered
\* no_policy, is the policy in effect for the request in one of the tables
\* the store has held since the invocation began.
C28_ResolvedAtOneInstant ==
    \A c \in DOMAIN invocations :
        HasResolved(c) =>
            ResolvedKey(c) \in { EffectiveKey(table) :
                                   table \in TablesHeld(table_before, CallsOf(1)) }

----------------------------------------------------------------------------
(* The response's reason *)
ClosedReasons ==
    { "no_policy", "unblocked", "within_quota", "monthly_exceeded",
      "daily_exceeded", "cost_exceeded", "check_failed" }
ExceededReasons == { "monthly_exceeded", "daily_exceeded", "cost_exceeded" }

\* C27: every response has its reason among no_policy, unblocked,
\* within_quota, monthly_exceeded, daily_exceeded, cost_exceeded and
\* check_failed, and is not allowed exactly when the reason is one of the
\* three exceeded reasons.
C27_ClosedReasons ==
    Returned =>
        /\ TheBody.reason \in ClosedReasons
        /\ ~TheBody.allowed <=> TheBody.reason \in ExceededReasons

\* C29: an override item without expires_at, when the override read
\* succeeds, gives the status is_unblocked = true and the response
\* reason = unblocked at every instant of the clock.
C29_NoExpiryNeverEnds ==
    (OverrideRead /\ HasOverrideItem /\ TheOverrideItem.expires_at = None) =>
        /\ TheOverride.is_unblocked /\ ~TheOverride.expired
        /\ TheOverride.expires_at = None
        /\ TheBody.allowed /\ TheBody.reason = "unblocked"

\* At the last instant of the clock, in a later month, the override item
\* without expires_at unblocks a user of a block policy whose limit is
\* reached.
C29_Witness ==
    /\ OverrideRead /\ HasOverrideItem /\ TheOverrideItem.expires_at = None
    /\ now = MaxTime
    /\ ThePolicy.enforcement_mode = "block"
    /\ MonthlyReached(TheUsage, ThePolicy)
    /\ TheBody.reason = "unblocked"

\* C30: when policies_table holds no enabled user policy for the email and
\* an enabled policy with monthly limit 0 for a listed group, and the reads of
\* the listed groups' policies succeed, the handler resolves a group policy
\* with monthly limit 0, whatever positive limits the other listed groups
\* have, and the reason is not monthly_exceeded.
C30_UnlimitedGroupWins ==
    (Returned /\ TheEmail # NoEmail /\ ~ StoredEnabled(UserKey)
        /\ (\E k \in ListedGroupKeys : StoredEnabled(k) /\ StoredLimit(k) = 0)
        /\ ListedGroupKeys \cap fail = {}) =>
        /\ Resolved
        /\ ThePolicy.policy_type = "group"
        /\ ThePolicy.monthly_token_limit = 0
        /\ TheBody.reason # "monthly_exceeded"

\* The second listed group is unlimited, the first has a limit that the
\* usage exceeds: the user is allowed.
C30_Witness ==
    /\ Returned /\ Resolved
    /\ ~ StoredEnabled(UserKey)
    /\ Len(TheGroups) = 2
    /\ StoredEnabled(GroupKey(1)) /\ StoredEnabled(GroupKey(2))
    /\ StoredLimit(GroupKey(1)) > 0 /\ StoredLimit(GroupKey(2)) = 0
    /\ TheUsage.total_tokens > StoredLimit(GroupKey(1))
    /\ ThePolicy.identifier = TheGroups[2]
    /\ ~TheOverride.is_unblocked
    /\ TheBody.allowed /\ TheBody.reason = "within_quota"

====
